---- MODULE Spec2Model ----
(***************************************************************************)
(* Model of the CourtApp record store, encrypted backup and cloud sync.    *)
(*                                                                         *)
(*   src/src/lib/storage/encryptedBackup.ts   EncryptedBackupService       *)
(*   src/src/lib/storage/indexedDBStorage.ts  IndexedDBStorage             *)
(*   src/unnamed/part_000                     CloudSyncService             *)
(*   src/unnamed/part_002                     SettingsScreen handlers      *)
(*   src/src/App.tsx                          App state and effects        *)
(*                                                                         *)
(* JavaScript values: `undefined` and `null` are the two marker strings    *)
(* below; an object is a TLA+ record whose DOMAIN is its own property set, *)
(* so an absent property and a property holding `undefined` are different  *)
(* objects that read the same.                                             *)
(***************************************************************************)
EXTENDS Integers, Sequences, FiniteSets, TLC

VARIABLES
    records,              \* App.tsx: const [records, setRecords]
    appPhase,             \* "loading" between mount and loadData, then "ready"
    localStorage,         \* window.localStorage, the items the app uses
    dbRecords,            \* IndexedDB object store 'records' (keyPath id)
    dbSettings,           \* IndexedDB object store 'settings' (keyPath key)
    sealed,               \* every AES-GCM encryption made so far (ideal cipher table)
    usedRandom,           \* values window.crypto.getRandomValues has returned
    decryptErrorMessage,  \* message the platform gives its OperationError
    backups,              \* history: every createBackup call that returned an envelope
    cloudRow,             \* the user's row of table user_data at the backend
    txns,                 \* IndexedDB: the live transactions, in the order created
    ops,                  \* history: the storage calls made, and their promises
    evidence,             \* EncryptedStorageService: evidence_records (table or item)
    nextRowId,            \* SQLite: the next AUTOINCREMENT rowid of evidence_records
    platform,             \* Capacitor.isNativePlatform(), and whether crypto.subtle exists
    activeTab,            \* App.tsx: const [activeTab, setActiveTab]
    isLocked,             \* App.tsx: const [isLocked, setIsLocked]
    isDecoyMode,          \* App.tsx: const [isDecoyMode, setIsDecoyMode]
    pin,                  \* App.tsx: const [pin, setPin]
    decoyPin,             \* App.tsx: const [decoyPin, setDecoyPin]
    starts,               \* history: how often loadData has run to its end
    enabled,              \* PrivacyScreenService.enabled
    calls,                \* PrivacyScreenService: the calls made, and where each stands
    last                  \* the last operation: its arguments and its outcome

vars == <<records, appPhase, localStorage, dbRecords, dbSettings, sealed,
          usedRandom, decryptErrorMessage, backups, cloudRow, txns, ops,
          evidence, nextRowId, platform, activeTab, isLocked,
          isDecoyMode, pin, decoyPin, starts, enabled, calls, last>>

appVars    == <<records, appPhase, localStorage>>
storeVars  == <<dbRecords, dbSettings>>
cryptoVars == <<sealed, usedRandom, decryptErrorMessage>>
idbVars    == <<txns, ops>>
essVars    == <<evidence, nextRowId, platform>>
lockVars   == <<activeTab, isLocked, isDecoyMode, pin, decoyPin>>
privacyVars == <<enabled, calls>>

-----------------------------------------------------------------------------
(* Bounds of the model.                                                    *)

MaxRecords == 2       \* longest record list taken as an input
MaxBackups == 2       \* envelopes created in one behaviour
MaxRestorable == 1    \* envelopes created in a behaviour that also restores
FlipBits   == 2       \* bit positions 0..FlipBits-1 of a byte that tampering flips
MaxUuids   == 1       \* ids crypto.randomUUID hands out in one behaviour
MaxSaves   == 2       \* saveRecord calls of EncryptedStorageService in one behaviour
MaxStarts  == 3       \* starts of the app in one behaviour
MaxOps     == 2       \* calls of IndexedDBStorage in one behaviour
MaxUploads == 1       \* ciphertexts in the table when the last sync starts
MaxCalls   == 3       \* calls of PrivacyScreenService in one behaviour

-----------------------------------------------------------------------------
(* JavaScript values.                                                      *)

Undefined == "<undefined>"
Null      == "<null>"
None      == [kind |-> "none"]

\* obj.k : reading a property that the object does not have gives undefined.
Get(obj, k) == IF k \in DOMAIN obj THEN obj[k] ELSE Undefined

NoDuplicateIds(seq) ==
    \A i, j \in 1..Len(seq) : seq[i].id = seq[j].id => i = j

RECURSIVE SeqsUpTo(_, _)
SeqsUpTo(S, n) ==
    IF n = 0 THEN {<<>>}
    ELSE LET shorter == SeqsUpTo(S, n - 1)
         IN  shorter \cup {Append(s, x) : s \in {t \in shorter : Len(t) = n - 1}, x \in S}

-----------------------------------------------------------------------------
(* Records (App.tsx RecordType). The optional string properties may be     *)
(* absent or may hold undefined; `severity` is optional and numeric.       *)

OptionalStringFields == {"editedAt", "contentHash", "location"}

RecA == [id |-> "r1", description |-> "Incident at pickup", createdAt |-> "t1",
         severity |-> 4]
RecB == [id |-> "r1", description |-> "Edited elsewhere", createdAt |-> "t1",
         editedAt |-> "t3", contentHash |-> Undefined]
RecC == [id |-> "r2", description |-> "Missed exchange", createdAt |-> "t2",
         location |-> "school", editedAt |-> Undefined]

RecordUniverse == {RecA, RecB, RecC}

RecordLists == SeqsUpTo(RecordUniverse, MaxRecords)
\* Lists the App can hold: ids come from crypto.randomUUID and the object
\* store's key path, so no id occurs twice.
AppRecordLists == {l \in RecordLists : NoDuplicateIds(l)}

\* Field-for-field equality of two record objects, by property reads.
SameRecord(a, b) ==
    /\ \A k \in {"id", "description", "createdAt"} \cup OptionalStringFields :
          Get(a, k) = Get(b, k)
    /\ ("severity" \in DOMAIN a) = ("severity" \in DOMAIN b)
    /\ "severity" \in DOMAIN a => a.severity = b.severity

SameRecordList(x, y) ==
    /\ Len(x) = Len(y)
    /\ \A i \in 1..Len(x) : SameRecord(x[i], y[i])

-----------------------------------------------------------------------------
(* Settings. IndexedDBStorage keeps {key, value} objects; the five keys    *)
(* below are the ones a snapshot carries.                                  *)

SettingNames == {"pin", "decoyPin", "lockEnabled", "userName", "welcomeCompleted"}

StoreKey == [pin              |-> "recordKeeper_pin",
             decoyPin         |-> "recordKeeper_decoyPin",
             lockEnabled      |-> "recordKeeper_lockEnabled",
             userName         |-> "recordKeeper_userName",
             welcomeCompleted |-> "recordKeeper_welcomeCompleted"]

SameSettings(a, b) == \A n \in SettingNames : Get(a, n) = Get(b, n)

-----------------------------------------------------------------------------
(* IndexedDBStorage.                                                       *)

\* getSetting: resolve(request.result?.value)
getSetting(db, key) == IF key \in DOMAIN db THEN db[key] ELSE Undefined

\* saveSetting: store.put({ key, value })
saveSetting(db, key, value) ==
    [k \in DOMAIN db \cup {key} |-> IF k = key THEN value ELSE db[k]]

\* The object store as a function from key to record.
StoreOf(list) ==
    [id \in {list[i].id : i \in 1..Len(list)} |->
        (CHOOSE r \in {list[i] : i \in 1..Len(list)} : r.id = id)]

\* A record the object store can key: keyPath 'id' yields a value.
HasKey(r) == "id" \in DOMAIN r

\* The records before the first one that store.add refuses (DataError).
RECURSIVE KeyedPrefix(_)
KeyedPrefix(list) ==
    IF list = <<>> \/ ~HasKey(Head(list)) THEN <<>>
    ELSE <<Head(list)>> \o KeyedPrefix(Tail(list))

\* saveRecords: one readwrite transaction that clears the store and adds every
\* record. store.add of a key already added in the transaction fails with a
\* ConstraintError; the unhandled request error aborts the transaction, which
\* rolls the clear back, and transaction.onerror rejects the promise.
\* store.add of a record without an id throws inside forEach: the promise is
\* rejected, and the requests made so far stay in the transaction.
saveRecords(db, list) ==
    LET queued == KeyedPrefix(list)
    IN  IF Len(queued) < Len(list)
        THEN [ok |-> FALSE, db |-> IF NoDuplicateIds(queued) THEN StoreOf(queued) ELSE db]
        ELSE IF NoDuplicateIds(list)
        THEN [ok |-> TRUE, db |-> StoreOf(list)]
        ELSE [ok |-> FALSE, db |-> db]

-----------------------------------------------------------------------------
(* Base64. A byte buffer is a sequence over 0..255. A base64 string is a   *)
(* sequence of code points: 0..63 for the alphabet, Pad for '=', and        *)
(* NotBase64 for any character outside the alphabet.                       *)

Pad       == 64
NotBase64 == 65

\* arrayBufferToBase64: btoa over the bytes, three bytes to four characters.
RECURSIVE arrayBufferToBase64(_)
arrayBufferToBase64(bytes) ==
    IF Len(bytes) = 0 THEN <<>>
    ELSE IF Len(bytes) = 1 THEN
        <<bytes[1] \div 4, (bytes[1] % 4) * 16, Pad, Pad>>
    ELSE IF Len(bytes) = 2 THEN
        <<bytes[1] \div 4, (bytes[1] % 4) * 16 + bytes[2] \div 16,
          (bytes[2] % 16) * 4, Pad>>
    ELSE
        <<bytes[1] \div 4, (bytes[1] % 4) * 16 + bytes[2] \div 16,
          (bytes[2] % 16) * 4 + bytes[3] \div 64, bytes[3] % 64>>
        \o arrayBufferToBase64(SubSeq(bytes, 4, Len(bytes)))

\* atob strips at most two trailing '=' of a string whose length is a multiple
\* of four, refuses a length of 1 mod 4 and any character outside the
\* alphabet, and drops the bits left over after the last whole byte.
StripPadding(s) ==
    IF Len(s) % 4 = 0 /\ Len(s) > 0 /\ s[Len(s)] = Pad
    THEN IF s[Len(s) - 1] = Pad THEN SubSeq(s, 1, Len(s) - 2)
         ELSE SubSeq(s, 1, Len(s) - 1)
    ELSE s

RECURSIVE DecodeSextets(_)
DecodeSextets(s) ==
    IF Len(s) < 2 THEN <<>>
    ELSE IF Len(s) = 2 THEN <<s[1] * 4 + s[2] \div 16>>
    ELSE IF Len(s) = 3 THEN
        <<s[1] * 4 + s[2] \div 16, (s[2] % 16) * 16 + s[3] \div 4>>
    ELSE
        <<s[1] * 4 + s[2] \div 16, (s[2] % 16) * 16 + s[3] \div 4,
          (s[3] % 4) * 64 + s[4]>>
        \o DecodeSextets(SubSeq(s, 5, Len(s)))

\* base64ToArrayBuffer: atob, then the char codes. ok = FALSE stands for the
\* InvalidCharacterError DOMException atob throws.
base64ToArrayBuffer(base64) ==
    LET s == StripPadding(base64)
    IN  IF Len(s) % 4 = 1 \/ \E i \in 1..Len(s) : s[i] \notin 0..63
        THEN [ok |-> FALSE, bytes |-> <<>>]
        ELSE [ok |-> TRUE, bytes |-> DecodeSextets(s)]

-----------------------------------------------------------------------------
(* JSON. The text JSON.stringify produces is modelled by the document it   *)
(* denotes: properties holding undefined are left out, null is kept.       *)

PruneRecord(r) ==
    [k \in {f \in DOMAIN r : ~(f \in OptionalStringFields /\ r[f] = Undefined)} |-> r[k]]

\* Faulty variant: a stringify that leaves out every falsy value, null and '' included.
PruneSettingsFalsy(s) ==
    [k \in {f \in DOMAIN s : s[f] \notin {Undefined, Null, ""}} |-> s[k]]

PruneSettings(s) ==
    [k \in {f \in DOMAIN s : s[f] # Undefined} |-> s[k]]

\* JSON.stringify(data) for a BackupData / SyncData object.
JsonStringify(data) ==
    [kind |-> "json",
     doc  |-> [k \in DOMAIN data |->
                  IF k = "records"
                  THEN [i \in 1..Len(data.records) |-> PruneRecord(data.records[i])]
                  ELSE IF k = "settings" THEN PruneSettings(data.settings)
                  ELSE data[k]]]

\* JSON.parse: a SyntaxError for text that is not JSON.
JsonParse(text) ==
    IF text.kind = "json" THEN [ok |-> TRUE, value |-> text.doc]
    ELSE [ok |-> FALSE, value |-> None]

-----------------------------------------------------------------------------
(* Web Crypto, as an ideal AEAD: a key is the pair it was derived from, a  *)
(* ciphertext is an opaque byte string that opens only under the key and   *)
(* the iv it was sealed with.                                              *)

SALT_BYTES == 16
IV_BYTES   == 12

\* window.crypto.getRandomValues(new Uint8Array(n)). The source is taken to be
\* ideal: it never returns a buffer it has returned before. Fresh buffers are
\* interchangeable, so the model returns the first one not yet in `used`.
\* Faulty variant: the buffer is never filled, new Uint8Array(n) is used as it is.
getRandomValuesUnfilled(n, used) == [i \in 1..n |-> 0]

getRandomValues(n, used) ==
    LET v == CHOOSE v \in 1..255 :
                 /\ [i \in 1..n |-> v] \notin used
                 /\ \A w \in 1..(v - 1) : [i \in 1..n |-> w] \in used
    IN  [i \in 1..n |-> v]

\* deriveKey: PBKDF2 over (password, salt); the CryptoKey is not extractable.
deriveKey(password, salt) == [password |-> password, salt |-> salt]

\* The bytes of the n-th ciphertext made (two bytes stand for text and tag).
CipherBytes(n) == <<n, n>>

SealIndex(table, entry) ==
    IF \E n \in 1..Len(table) : table[n] = entry
    THEN CHOOSE n \in 1..Len(table) : table[n] = entry
    ELSE Len(table) + 1

\* crypto.subtle.encrypt({name: 'AES-GCM', iv}, key, data)
encrypt(table, key, iv, plaintext) ==
    LET entry == [key |-> key, iv |-> iv, plaintext |-> plaintext]
        n     == SealIndex(table, entry)
    IN  [table |-> IF n > Len(table) THEN Append(table, entry) ELSE table,
         bytes |-> CipherBytes(n)]

\* crypto.subtle.decrypt: a DOMException named OperationError unless the bytes
\* were sealed under this key and iv.
decrypt(table, key, iv, bytes) ==
    LET hits == {n \in 1..Len(table) :
                    /\ CipherBytes(n) = bytes
                    /\ table[n].key = key
                    /\ table[n].iv = iv}
    IN  IF hits = {} THEN [ok |-> FALSE, plaintext |-> None]
        ELSE [ok |-> TRUE, plaintext |-> table[CHOOSE n \in hits : TRUE].plaintext]

\* The platform's error objects. A message is its sequence of words.
\* The message of an OperationError is left to the platform: it can be empty,
\* and a platform may put the name of the error in it.
OperationErrorMessages ==
    { <<>>, <<"OperationError", "decryption", "failed">> }

OperationError(message) ==
    [name |-> "OperationError", message |-> message, isError |-> TRUE]
InvalidCharacterError ==
    [name |-> "InvalidCharacterError", isError |-> TRUE,
     message |-> <<"The", "string", "to", "be", "decoded", "is", "not", "correctly", "encoded">>]
SyntaxError ==
    [name |-> "SyntaxError", isError |-> TRUE,
     message |-> <<"Unexpected", "token">>]

\* error.message.includes(word)
MessageIncludes(message, word) == \E i \in 1..Len(message) : message[i] = word

-----------------------------------------------------------------------------
(* EncryptedBackupService.                                                 *)

BACKUP_VERSION == "1.0"

MsgPasswordTooShort == <<"Password", "must", "be", "at", "least", "6", "characters">>
MsgCreateFailed     == <<"Failed", "to", "create", "encrypted", "backup">>
MsgPasswordRequired == <<"Password", "is", "required">>
MsgIncorrectPassword ==
    <<"Incorrect", "password", "or", "corrupted", "backup", "file">>
MsgRestoreFailed    == <<"Failed", "to", "restore", "backup">>
MsgReadFailed       == <<"Failed", "to", "read", "backup", "file">>
MsgApplyFailed      == <<"Failed", "to", "apply", "backup", "data">>

Passwords == {"", "12345", "123456", "hunter22"}
Clock     == {"2026-01-01T00:00:00.000Z"}

\* The try block of createBackup. `calls` lists, in order, the store and
\* platform calls made. dbAvailable = FALSE is a store whose getSetting rejects.
createBackupTry(password, recs, settingsDb, table, used, exportDate, dbAvailable) ==
    IF ~dbAvailable THEN
        [ok |-> FALSE, error |-> MsgCreateFailed, calls |-> <<"getSetting">>,
         table |-> table, used |-> used]
    ELSE
        LET settings   == [n \in SettingNames |-> getSetting(settingsDb, StoreKey[n])]
            backupData == [version    |-> BACKUP_VERSION,
                           exportDate |-> exportDate,
                           records    |-> recs,
                           settings   |-> settings]
            jsonData   == JsonStringify(backupData)
            salt       == getRandomValues(SALT_BYTES, used)
            iv         == getRandomValues(IV_BYTES, used \cup {salt})
            key        == deriveKey(password, salt)
            enc        == encrypt(table, key, iv, jsonData)
        IN  [ok |-> TRUE,
             envelope |-> [version |-> BACKUP_VERSION,
                           salt    |-> arrayBufferToBase64(salt),
                           iv      |-> arrayBufferToBase64(iv),
                           data    |-> arrayBufferToBase64(enc.bytes)],
             backupData |-> backupData,
             calls |-> <<"getSetting", "getSetting", "getSetting", "getSetting",
                         "getSetting", "getRandomValues", "getRandomValues",
                         "deriveKey", "encrypt">>,
             table |-> enc.table,
             used  |-> used \cup {salt, iv}]

\* Faulty variant: only the empty password is refused (the length test is missing).
createBackupEmptyOnly(password, recs, settingsDb, table, used, exportDate, dbAvailable) ==
    IF password = "" THEN
        [ok |-> FALSE, error |-> MsgPasswordTooShort, calls |-> <<>>,
         table |-> table, used |-> used]
    ELSE createBackupTry(password, recs, settingsDb, table, used, exportDate, dbAvailable)

\* createBackup: the password test, then the try block.
createBackup(password, recs, settingsDb, table, used, exportDate, dbAvailable) ==
    IF password = "" \/ Len(password) < 6 THEN
        [ok |-> FALSE, error |-> MsgPasswordTooShort, calls |-> <<>>,
         table |-> table, used |-> used]
    ELSE createBackupTry(password, recs, settingsDb, table, used, exportDate, dbAvailable)

\* The catch block of restoreBackup.
RestoreCatch(error) ==
    IF error.isError /\ MessageIncludes(error.message, "OperationError")
    THEN [ok |-> FALSE, error |-> MsgIncorrectPassword]
    ELSE [ok |-> FALSE, error |-> MsgRestoreFailed]

\* restoreBackup. The parsed plaintext is returned as it is: nothing checks
\* that it has the properties of a BackupData.
restoreBackup(password, encryptedBackup, table, opMessage) ==
    IF password = "" THEN [ok |-> FALSE, error |-> MsgPasswordRequired]
    ELSE
        LET salt == base64ToArrayBuffer(encryptedBackup.salt)
            iv   == base64ToArrayBuffer(encryptedBackup.iv)
            data == base64ToArrayBuffer(encryptedBackup.data)
        IN  IF ~(salt.ok /\ iv.ok /\ data.ok) THEN RestoreCatch(InvalidCharacterError)
            ELSE
                LET key == deriveKey(password, salt.bytes)
                    dec == decrypt(table, key, iv.bytes, data.bytes)
                IN  IF ~dec.ok THEN RestoreCatch(OperationError(opMessage))
                    ELSE
                        LET parsed == JsonParse(dec.plaintext)
                        IN  IF ~parsed.ok THEN RestoreCatch(SyntaxError)
                            ELSE [ok |-> TRUE, value |-> parsed.value]

\* downloadBackup writes JSON.stringify(encryptedBackup, null, 2) to the file.
EnvelopeFile(envelope) == [kind |-> "json", doc |-> envelope]
TextFile       == [kind |-> "text"]
UnreadableFile == [kind |-> "unreadable"]

\* restoreFromFile: FileReader, JSON.parse, restoreBackup; every error is
\* passed to reject as it is.
restoreFromFile(password, file, table, opMessage) ==
    IF file.kind = "unreadable" THEN [ok |-> FALSE, error |-> MsgReadFailed]
    ELSE
        LET parsed == JsonParse(file)
        IN  IF ~parsed.ok THEN [ok |-> FALSE, error |-> SyntaxError.message]
            ELSE restoreBackup(password, parsed.value, table, opMessage)

\* if (value) ... : undefined, null and '' are falsy.
Truthy(value) == value \notin {Undefined, Null, ""}

RECURSIVE ApplySettings(_, _, _)
ApplySettings(db, settings, names) ==
    IF names = <<>> THEN db
    ELSE LET n    == Head(names)
             next == IF Truthy(Get(settings, n))
                     THEN saveSetting(db, StoreKey[n], settings[n])
                     ELSE db
         IN  ApplySettings(next, settings, Tail(names))

EmptyStore == [id \in {} |-> None]

\* applyBackup. With no `records` property, saveRecords has already asked for
\* store.clear() when records.forEach throws, and the transaction commits.
applyBackup(recordsDb, settingsDb, backupData) ==
    LET saved == IF "records" \in DOMAIN backupData
                 THEN saveRecords(recordsDb, backupData.records)
                 ELSE [ok |-> FALSE, db |-> EmptyStore]
    IN  IF ~saved.ok \/ "settings" \notin DOMAIN backupData
        THEN [ok |-> FALSE, error |-> MsgApplyFailed,
              dbRecords |-> saved.db, dbSettings |-> settingsDb]
        ELSE [ok |-> TRUE,
              dbRecords  |-> saved.db,
              dbSettings |-> ApplySettings(settingsDb, backupData.settings,
                                 <<"pin", "decoyPin", "lockEnabled", "userName",
                                   "welcomeCompleted">>)]

-----------------------------------------------------------------------------
(* Files a user can pick for a restore.                                    *)

\* One bit of a byte changed.
FlipBit(b, k) == IF (b \div (2 ^ k)) % 2 = 1 THEN b - 2 ^ k ELSE b + 2 ^ k

\* The envelopes that differ from `envelope` in one bit of the data bytes.
BitFlipped(envelope) ==
    LET bytes == base64ToArrayBuffer(envelope.data).bytes
    IN  { [envelope EXCEPT !.data =
              arrayBufferToBase64([bytes EXCEPT ![i] = FlipBit(bytes[i], k)])] :
          i \in 1..Len(bytes), k \in 0..(FlipBits - 1) }

\* The envelopes in which one field is no longer base64.
Malformed(envelope) ==
    { [envelope EXCEPT !.salt = [@ EXCEPT ![1] = NotBase64]],
      [envelope EXCEPT !.iv   = [@ EXCEPT ![1] = NotBase64]],
      [envelope EXCEPT !.data = [@ EXCEPT ![1] = NotBase64]] }

\* Envelopes made elsewhere under a known password: one seals text that is not
\* JSON, one seals a JSON object that is not a snapshot, one is a backup made
\* by the app on another device.
ForeignPassword == "123456"
OtherDeviceData ==
    [version    |-> BACKUP_VERSION,
     exportDate |-> "2025-12-24T00:00:00.000Z",
     records    |-> << [id |-> "r2", description |-> "Late return",
                        createdAt |-> "t0"] >>,
     settings   |-> [pin |-> "4321", userName |-> "Bea", welcomeCompleted |-> "true"]]
ForeignSalt     == [i \in 1..SALT_BYTES |-> 0]
ForeignIv       == [i \in 1..IV_BYTES |-> 0]
ForeignSealed ==
    << [key |-> deriveKey(ForeignPassword, ForeignSalt), iv |-> ForeignIv,
        plaintext |-> [kind |-> "text"]],
       [key |-> deriveKey(ForeignPassword, ForeignSalt), iv |-> ForeignIv,
        plaintext |-> [kind |-> "json", doc |-> [version |-> "0.9"]]],
       [key |-> deriveKey(ForeignPassword, ForeignSalt), iv |-> ForeignIv,
        plaintext |-> [kind |-> "json", doc |-> OtherDeviceData]] >>
ForeignEnvelopes ==
    { [version |-> BACKUP_VERSION,
       salt    |-> arrayBufferToBase64(ForeignSalt),
       iv      |-> arrayBufferToBase64(ForeignIv),
       data    |-> arrayBufferToBase64(CipherBytes(n))] : n \in 1..Len(ForeignSealed) }

Produced(bk) == {bk[i].envelope : i \in 1..Len(bk)}

EnvelopeCandidates(bk) ==
    Produced(bk) \cup ForeignEnvelopes
    \cup UNION {BitFlipped(e) \cup Malformed(e) : e \in Produced(bk)}

FileCandidates(bk) ==
    {EnvelopeFile(e) : e \in EnvelopeCandidates(bk)} \cup {TextFile, UnreadableFile}

\* window.location.reload() mounts the App again: every useState of App.tsx
\* has its initial value until loadData has run.
Mounted(reloads) ==
    /\ activeTab' = IF reloads THEN "home" ELSE activeTab
    /\ isLocked' = IF reloads THEN FALSE ELSE isLocked
    /\ isDecoyMode' = IF reloads THEN FALSE ELSE isDecoyMode
    /\ pin' = IF reloads THEN Null ELSE pin
    /\ decoyPin' = IF reloads THEN Null ELSE decoyPin

-----------------------------------------------------------------------------
(* Operations of the backup and restore screens.                           *)

BackupOutcome(r) ==
    IF r.ok THEN [ok |-> TRUE, envelope |-> r.envelope, calls |-> r.calls]
    ELSE [ok |-> FALSE, error |-> r.error, calls |-> r.calls]

\* encryptedBackup.createBackup(password, records), called with the App's records.
CreateBackup(password, exportDate, dbAvailable) ==
    /\ Len(backups) < MaxBackups
    /\ LET r == createBackup(password, records, dbSettings, sealed, usedRandom,
                             exportDate, dbAvailable)
       IN  /\ sealed' = r.table
           /\ usedRandom' = r.used
           /\ backups' = IF r.ok
                         THEN Append(backups, [password |-> password,
                                               snapshot |-> r.backupData,
                                               envelope |-> r.envelope])
                         ELSE backups
           /\ last' = [op |-> "createBackup", password |-> password,
                       outcome |-> BackupOutcome(r)]
    /\ UNCHANGED <<lockVars, privacyVars, starts,
                   appVars, storeVars, decryptErrorMessage, cloudRow, idbVars, essVars>>

MsgPasswordsDiffer == <<"Passwords", "do", "not", "match">>
MsgBackupFailed    == <<"Failed", "to", "create", "backup.", "Please", "try", "again.">>
MsgBackupDone      == <<"Encrypted", "backup", "downloaded", "successfully!">>

\* SettingsScreen.handleCreateBackup, with downloadBackup and createBackup.
HandleCreateBackup(backupPassword, confirmBackupPassword, exportDate, dbAvailable) ==
    /\ appPhase = "ready"
    /\ Len(backups) < MaxBackups
    /\ IF Len(backupPassword) < 6 \/ backupPassword # confirmBackupPassword
       THEN /\ last' = [op |-> "handleCreateBackup", password |-> backupPassword,
                        called |-> FALSE,
                        alert |-> IF Len(backupPassword) < 6
                                  THEN MsgPasswordTooShort ELSE MsgPasswordsDiffer]
            /\ UNCHANGED <<sealed, usedRandom, backups>>
       ELSE LET r == createBackup(backupPassword, records, dbSettings, sealed,
                                  usedRandom, exportDate, dbAvailable)
            IN  /\ sealed' = r.table
                /\ usedRandom' = r.used
                /\ backups' = IF r.ok
                              THEN Append(backups, [password |-> backupPassword,
                                                    snapshot |-> r.backupData,
                                                    envelope |-> r.envelope])
                              ELSE backups
                /\ last' = [op |-> "handleCreateBackup", password |-> backupPassword,
                            called |-> TRUE,
                            alert |-> IF r.ok THEN MsgBackupDone ELSE MsgBackupFailed,
                            outcome |-> BackupOutcome(r)]
    /\ UNCHANGED <<lockVars, privacyVars, starts,
                   appVars, storeVars, decryptErrorMessage, cloudRow, idbVars, essVars>>

\* Faulty variant: a restoreBackup that writes the records it decrypted to the store.
RestoreBackupWriting(password, envelope) ==
    LET r == restoreBackup(password, envelope, sealed, decryptErrorMessage)
    IN  /\ last' = [op |-> "restoreBackup", password |-> password,
                    envelope |-> envelope, outcome |-> r]
        /\ dbRecords' = IF r.ok /\ "records" \in DOMAIN r.value
                        THEN saveRecords(dbRecords, r.value.records).db
                        ELSE dbRecords
        /\ UNCHANGED <<lockVars, privacyVars, starts,
                       appVars, dbSettings, cryptoVars, backups, cloudRow, idbVars, essVars>>

\* encryptedBackup.restoreBackup(password, encryptedBackup)
RestoreBackup(password, envelope) ==
    /\ last' = [op |-> "restoreBackup", password |-> password, envelope |-> envelope,
                outcome |-> restoreBackup(password, envelope, sealed, decryptErrorMessage)]
    /\ UNCHANGED <<lockVars, privacyVars, starts,
                   appVars, storeVars, cryptoVars, backups, cloudRow, idbVars, essVars>>

MsgSelectFile    == <<"Please", "select", "a", "backup", "file">>
MsgEnterPassword == <<"Please", "enter", "backup", "password">>
MsgRestoreDone   == <<"Successfully", "restored", "records", "from", "backup!">>

\* SettingsScreen.handleRestoreBackup: restoreFromFile, then applyBackup, then
\* window.location.reload(), which mounts the App again.
HandleRestoreBackup(restorePassword, restoreFile) ==
    /\ appPhase = "ready"
    /\ IF restoreFile = None \/ restorePassword = ""
       THEN /\ last' = [op |-> "handleRestoreBackup", password |-> restorePassword,
                        file |-> restoreFile, called |-> FALSE,
                        alert |-> IF restoreFile = None
                                  THEN MsgSelectFile ELSE MsgEnterPassword]
            /\ UNCHANGED <<appVars, storeVars>>
       ELSE LET r == restoreFromFile(restorePassword, restoreFile, sealed,
                                     decryptErrorMessage)
                a == applyBackup(dbRecords, dbSettings, r.value)
            IN  IF ~r.ok
                THEN /\ last' = [op |-> "handleRestoreBackup",
                                 password |-> restorePassword, file |-> restoreFile,
                                 called |-> TRUE, alert |-> r.error, outcome |-> r]
                     /\ UNCHANGED <<appVars, storeVars>>
                ELSE /\ last' = [op |-> "handleRestoreBackup",
                                 password |-> restorePassword, file |-> restoreFile,
                                 called |-> TRUE, outcome |-> r, applied |-> a.ok,
                                 alert |-> IF a.ok THEN MsgRestoreDone ELSE a.error]
                     /\ dbRecords' = a.dbRecords
                     /\ dbSettings' = a.dbSettings
                     /\ IF a.ok
                        THEN /\ appPhase' = "loading"
                             /\ records' = <<>>
                             /\ UNCHANGED localStorage
                        ELSE UNCHANGED appVars
    /\ Mounted(appPhase' = "loading" /\ appPhase = "ready")
    /\ UNCHANGED <<privacyVars, starts,
                   cryptoVars, backups, cloudRow, idbVars, essVars>>

-----------------------------------------------------------------------------
(* The App component (App.tsx).                                            *)

RecordsItem == "recordKeeper_records"

\* Object-store keys in the order IndexedDB keeps them.
IdRank == [r1 |-> 1, r2 |-> 2, r9 |-> 3, u1 |-> 4, u2 |-> 5, u3 |-> 6, u4 |-> 7]

\* getRecords: store.getAll(), the records in ascending key order.
getRecords(db) ==
    LET ids == DOMAIN db
    IN  [i \in 1..Cardinality(ids) |->
            db[CHOOSE id \in ids :
                  Cardinality({j \in ids : IdRank[j] < IdRank[id]}) = i - 1]]

RECURSIVE MigrateSettings(_, _, _)
MigrateSettings(db, ls, keys) ==
    IF keys = <<>> THEN db
    ELSE LET next == IF Head(keys) \in DOMAIN ls
                     THEN saveSetting(db, Head(keys), ls[Head(keys)])
                     ELSE db
         IN  MigrateSettings(next, ls, Tail(keys))

\* migrateFromLocalStorage: records first, then the five settings; an error
\* is thrown on to the caller.
migrateFromLocalStorage(recordsDb, settingsDb, ls) ==
    LET saved == IF RecordsItem \in DOMAIN ls
                 THEN saveRecords(recordsDb, ls[RecordsItem])
                 ELSE [ok |-> TRUE, db |-> recordsDb]
    IN  IF ~saved.ok
        THEN [ok |-> FALSE, dbRecords |-> saved.db, dbSettings |-> settingsDb]
        ELSE [ok |-> TRUE, dbRecords |-> saved.db,
              dbSettings |-> MigrateSettings(settingsDb, ls,
                                 <<"recordKeeper_pin", "recordKeeper_decoyPin",
                                   "recordKeeper_lockEnabled",
                                   "recordKeeper_welcomeCompleted",
                                   "recordKeeper_userName">>)]

\* The effect on [records]: saveRecords when the list is not empty, and
\* localStorage.setItem when saveRecords rejects.
SaveEffect(recordsDb, ls, recs) ==
    IF Len(recs) = 0 THEN [dbRecords |-> recordsDb, localStorage |-> ls]
    ELSE LET saved == saveRecords(recordsDb, recs)
         IN  IF saved.ok THEN [dbRecords |-> saved.db, localStorage |-> ls]
             ELSE [dbRecords |-> saved.db,
                   localStorage |-> [k \in DOMAIN ls \cup {RecordsItem} |->
                                        IF k = RecordsItem THEN recs ELSE ls[k]]]

\* The mount effect loadData, followed by the save effect its setRecords
\* causes. When the migration throws, the catch block takes the records of
\* localStorage and no setting is read.
LoadData ==
    /\ appPhase = "loading"
    /\ LET mig == IF RecordsItem \in DOMAIN localStorage
                  THEN migrateFromLocalStorage(dbRecords, dbSettings, localStorage)
                  ELSE [ok |-> TRUE, dbRecords |-> dbRecords, dbSettings |-> dbSettings]
           savedRecords == getRecords(mig.dbRecords)
           loaded == IF ~mig.ok THEN localStorage[RecordsItem]
                     ELSE IF Len(savedRecords) > 0 THEN savedRecords
                     ELSE records
           eff == SaveEffect(mig.dbRecords, localStorage, loaded)
           savedPin      == getSetting(mig.dbSettings, "recordKeeper_pin")
           savedDecoyPin == getSetting(mig.dbSettings, "recordKeeper_decoyPin")
           lockEnabled   == getSetting(mig.dbSettings, "recordKeeper_lockEnabled")
       IN  /\ records' = loaded
           /\ dbRecords' = eff.dbRecords
           /\ dbSettings' = mig.dbSettings
           /\ localStorage' = eff.localStorage
           /\ pin' = IF mig.ok /\ Truthy(savedPin) THEN savedPin ELSE pin
           /\ decoyPin' = IF mig.ok /\ Truthy(savedDecoyPin) THEN savedDecoyPin ELSE decoyPin
           /\ isLocked' = IF mig.ok /\ lockEnabled = "true" /\ Truthy(savedPin)
                          THEN TRUE ELSE isLocked
           /\ last' = [op |-> "loadData", migrated |-> RecordsItem \in DOMAIN localStorage,
                       before |-> dbRecords]
    /\ appPhase' = "ready"
    /\ starts' = starts + 1
    /\ UNCHANGED <<activeTab, isDecoyMode, privacyVars,
                   cryptoVars, backups, cloudRow, idbVars, essVars>>

\* The user closes the app and opens it again.
Restart ==
    /\ appPhase = "ready"
    /\ starts < MaxStarts
    /\ appPhase' = "loading"
    /\ records' = <<>>
    /\ Mounted(TRUE)
    /\ last' = [op |-> "restart"]
    /\ UNCHANGED <<localStorage, storeVars, privacyVars, starts,
                   cryptoVars, backups, cloudRow, idbVars, essVars>>

\* deleteRecord(id), followed by the save effect.
DeleteRecord(id) ==
    /\ appPhase = "ready"
    /\ \E i \in 1..Len(records) : records[i].id = id
    /\ LET kept == SelectSeq(records, LAMBDA r : r.id # id)
           eff  == SaveEffect(dbRecords, localStorage, kept)
       IN  /\ records' = kept
           /\ dbRecords' = eff.dbRecords
           /\ localStorage' = eff.localStorage
    /\ last' = [op |-> "deleteRecord", id |-> id, before |-> records]
    /\ UNCHANGED <<lockVars, privacyVars, starts,
                   appPhase, dbSettings, cryptoVars, backups, cloudRow, idbVars, essVars>>

\* crypto.randomUUID(): sixteen bytes of the platform's random source, written
\* out as text. UuidText keeps the text of the buffers the model can draw.
UuidText(bytes) == <<"u1", "u2", "u3", "u4">>[bytes[1]]

randomUUID(used) ==
    LET bytes == getRandomValues(SALT_BYTES, used)
    IN  [id |-> UuidText(bytes), used |-> used \cup {bytes}]

\* { ...a, ...b }: the own properties of a, then those of b over them.
Spread(a, b) == [k \in DOMAIN a \cup DOMAIN b |-> IF k \in DOMAIN b THEN b[k] ELSE a[k]]

\* addRecord: the form's fields, then a fresh id, createdAt and event log.
addRecord(record, used, timestamp) ==
    LET uuid == randomUUID(used)
    IN  [record |-> Spread(record, [id |-> uuid.id, createdAt |-> timestamp,
                                    eventLog |-> <<[timestamp |-> timestamp,
                                                    action |-> "created"]>>]),
         used |-> uuid.used]

AddRecord(record, timestamp) ==
    /\ appPhase = "ready"
    /\ Cardinality(usedRandom) < MaxUuids
    /\ \E r \in {addRecord(record, usedRandom, timestamp)} :
         LET eff == SaveEffect(dbRecords, localStorage, <<r.record>> \o records)
         IN  /\ records' = <<r.record>> \o records
             /\ usedRandom' = r.used
             /\ dbRecords' = eff.dbRecords
             /\ localStorage' = eff.localStorage
             /\ last' = [op |-> "addRecord", id |-> r.record.id, before |-> records]
    /\ activeTab' = "home"
    /\ UNCHANGED <<isLocked, isDecoyMode, pin, decoyPin, privacyVars, starts,
                   appPhase, dbSettings, sealed, decryptErrorMessage, backups, cloudRow,
                   idbVars, essVars>>

\* updateRecord: records.map(r => r.id === id ? { ...r, ...updates } : r).
updateRecord(recs, id, updates) ==
    [i \in 1..Len(recs) |-> IF recs[i].id = id THEN Spread(recs[i], updates) ELSE recs[i]]

UpdateRecord(id, updates) ==
    /\ appPhase = "ready"
    /\ LET updated == updateRecord(records, id, updates)
           eff     == SaveEffect(dbRecords, localStorage, updated)
       IN  /\ records' = updated
           /\ dbRecords' = eff.dbRecords
           /\ localStorage' = eff.localStorage
    /\ last' = [op |-> "updateRecord", id |-> id, updates |-> updates, before |-> records]
    /\ UNCHANGED <<lockVars, privacyVars, starts,
                   appPhase, dbSettings, cryptoVars, backups, cloudRow, idbVars, essVars>>

\* What the add form hands to addRecord, and what an edit hands to updateRecord
\* (Partial<RecordType>: any subset of the record's fields).
FormInputs == { [description |-> "Late pickup", location |-> "school"] }
UpdateInputs == { [severity |-> 2, editedAt |-> "t7"],
                  [id |-> "r9"],
                  [createdAt |-> "t9"],
                  [eventLog |-> <<>>] }
AppClock == {"t5"}

-----------------------------------------------------------------------------
(* The backup and restore specification.                                   *)

NoRow        == [kind |-> "none"]
NoLocalItems == [k \in {} |-> ""]

\* Settings stores the app can have reached: nothing saved yet, every setting
\* saved, and the store after handleClearData and a new welcome (pin null).
NoSettings      == [k \in {} |-> ""]
AllSettings     ==
    [recordKeeper_welcomeCompleted |-> "true", recordKeeper_userName |-> "Ana",
     recordKeeper_pin |-> "1234", recordKeeper_decoyPin |-> "9999",
     recordKeeper_lockEnabled |-> "false"]
ClearedSettings ==
    [recordKeeper_welcomeCompleted |-> "true", recordKeeper_pin |-> Null,
     recordKeeper_lockEnabled |-> "false", recordKeeper_userName |-> ""]

\* What loadData leaves in the App's state for a setting: the stored value
\* when it is truthy, else the initial null.
LoadedSetting(db, key) ==
    IF Truthy(getSetting(db, key)) THEN getSetting(db, key) ELSE Null

\* The App after its first load, unlocked, on the home tab; the privacy
\* screen service of a web build.
InitShell ==
    /\ activeTab = "home"
    /\ isLocked = FALSE
    /\ isDecoyMode = FALSE
    /\ pin = LoadedSetting(dbSettings, "recordKeeper_pin")
    /\ decoyPin = LoadedSetting(dbSettings, "recordKeeper_decoyPin")
    /\ starts = 1
    /\ enabled = FALSE
    /\ calls = <<>>

\* The App's list (newest first) and the stores when a backup is made. The
\* save effect skips an empty list, so the object store can still hold the
\* record that was deleted last.
InitialStores ==
    { [records |-> <<>>,           db |-> StoreOf(<<>>),           settings |-> NoSettings],
      [records |-> <<>>,           db |-> StoreOf(<<RecA>>),       settings |-> AllSettings],
      [records |-> <<RecB>>,       db |-> StoreOf(<<RecB>>),       settings |-> AllSettings],
      [records |-> <<RecC, RecA>>, db |-> StoreOf(<<RecC, RecA>>), settings |-> ClearedSettings] }

InitBackup ==
    /\ \E st \in InitialStores :
          records = st.records /\ dbRecords = st.db /\ dbSettings = st.settings
    /\ appPhase = "ready"
    /\ localStorage = NoLocalItems
    /\ sealed = ForeignSealed
    /\ usedRandom = {}
    /\ decryptErrorMessage \in OperationErrorMessages
    /\ backups = <<>>
    /\ cloudRow = NoRow
    /\ txns = <<>>
    /\ ops = <<>>
    /\ evidence = <<>>
    /\ nextRowId = 1
    /\ platform = [isNative |-> FALSE, subtle |-> TRUE]
    /\ InitShell
    /\ last = [op |-> "none"]

CreateAny ==
    \/ \E p \in Passwords, d \in Clock, up \in BOOLEAN : CreateBackup(p, d, up)
    \/ \E p, c \in Passwords, d \in Clock, up \in BOOLEAN : HandleCreateBackup(p, c, d, up)

NextBackup ==
    \/ Len(backups) < MaxRestorable /\ CreateAny
    \/ \E p \in Passwords, e \in Produced(backups) \cup ForeignEnvelopes :
          RestoreBackup(p, e)
    \/ \E p \in Passwords, f \in FileCandidates(backups) \cup {None} :
          HandleRestoreBackup(p, f)

\* Backups and restores up to the reload that follows an applied restore.
SpecBackup == InitBackup /\ [][NextBackup]_vars

\* Only createBackup runs: the envelopes a sequence of backups produces.
SpecEnvelopes == InitBackup /\ [][CreateAny]_vars

-----------------------------------------------------------------------------
(* CloudSyncService. The user_data row of the signed-in user holds one     *)
(* base64 string: salt, iv and ciphertext joined.                          *)

SYNC_VERSION == "1.0"
UserId       == "user-1"

MsgNotConfigured  == <<"Cloud", "sync", "not", "configured">>
MsgNotSignedIn    == <<"Not", "signed", "in">>
MsgDownloadFailed == <<"Failed", "to", "download", "from", "cloud">>
MsgSyncFailed     == <<"Sync", "failed">>
\* error.message of a PostgrestError other than PGRST116.
MsgPostgrest      == <<"JWT", "expired">>

\* bytes.slice(from, to)
Slice(bytes, from, to) ==
    SubSeq(bytes, from + 1, IF to < Len(bytes) THEN to ELSE Len(bytes))

\* encryptData(data, userId)
encryptData(data, userId, table, used) ==
    LET jsonData == JsonStringify(data)
        salt     == getRandomValues(SALT_BYTES, used)
        key      == deriveKey(userId, salt)
        iv       == getRandomValues(IV_BYTES, used \cup {salt})
        enc      == encrypt(table, key, iv, jsonData)
    IN  [text  |-> arrayBufferToBase64(salt \o iv \o enc.bytes),
         table |-> enc.table,
         used  |-> used \cup {salt, iv}]

\* decryptData(encryptedBase64, userId); ok = FALSE stands for a throw.
decryptData(encryptedBase64, userId, table) ==
    LET decoded == base64ToArrayBuffer(encryptedBase64)
    IN  IF ~decoded.ok THEN [ok |-> FALSE, value |-> None]
        ELSE
            LET salt == Slice(decoded.bytes, 0, SALT_BYTES)
                iv   == Slice(decoded.bytes, SALT_BYTES, SALT_BYTES + IV_BYTES)
                encryptedData == Slice(decoded.bytes, SALT_BYTES + IV_BYTES,
                                       Len(decoded.bytes))
                key  == deriveKey(userId, salt)
                dec  == decrypt(table, key, iv, encryptedData)
            IN  IF ~dec.ok THEN [ok |-> FALSE, value |-> None]
                ELSE JsonParse(dec.plaintext)

Row(encrypted_data) == [kind |-> "row", encrypted_data |-> encrypted_data]

\* uploadToCloud(records). upsertFails: the upsert answers with an error.
uploadToCloud(recs, configured, signedIn, upsertFails, settingsDb, table, used, row, now) ==
    LET same == [table |-> table, used |-> used, row |-> row]
    IN  IF ~configured THEN [success |-> FALSE, error |-> MsgNotConfigured] @@ same
        ELSE IF ~signedIn THEN [success |-> FALSE, error |-> MsgNotSignedIn] @@ same
        ELSE
            LET settings == [n \in {"pin", "decoyPin", "lockEnabled", "userName"} |->
                                getSetting(settingsDb, StoreKey[n])]
                syncData == [version    |-> SYNC_VERSION,
                             lastSynced |-> now,
                             records    |-> recs,
                             settings   |-> settings]
                enc      == encryptData(syncData, UserId, table, used)
            IN  IF upsertFails
                THEN [success |-> FALSE, error |-> MsgPostgrest,
                      table |-> enc.table, used |-> enc.used, row |-> row]
                ELSE [success |-> TRUE,
                      table |-> enc.table, used |-> enc.used, row |-> Row(enc.text)]

\* Faulty variant: a select error and a row that cannot be decoded are taken
\* for "no data yet".
downloadFromCloudLenient(configured, signedIn, selectFails, row, table) ==
    IF ~configured THEN [hasData |-> FALSE, hasError |-> TRUE, error |-> MsgNotConfigured]
    ELSE IF ~signedIn THEN [hasData |-> FALSE, hasError |-> TRUE, error |-> MsgNotSignedIn]
    ELSE IF selectFails \/ row.kind = "none" THEN [hasData |-> FALSE, hasError |-> FALSE]
    ELSE IF row.encrypted_data = <<>> THEN [hasData |-> FALSE, hasError |-> FALSE]
    ELSE
        LET syncData == decryptData(row.encrypted_data, UserId, table)
        IN  IF ~syncData.ok THEN [hasData |-> FALSE, hasError |-> FALSE]
            ELSE [hasData |-> TRUE, hasError |-> FALSE, data |-> syncData.value]

\* downloadFromCloud(). selectFails: the select answers with an error other
\* than PGRST116 (no row). hasData = FALSE stands for data: null.
downloadFromCloud(configured, signedIn, selectFails, row, table) ==
    IF ~configured THEN [hasData |-> FALSE, hasError |-> TRUE, error |-> MsgNotConfigured]
    ELSE IF ~signedIn THEN [hasData |-> FALSE, hasError |-> TRUE, error |-> MsgNotSignedIn]
    ELSE IF selectFails THEN [hasData |-> FALSE, hasError |-> TRUE, error |-> MsgPostgrest]
    ELSE IF row.kind = "none" THEN [hasData |-> FALSE, hasError |-> FALSE]
    ELSE IF row.encrypted_data = <<>> THEN [hasData |-> FALSE, hasError |-> FALSE]
    ELSE
        LET syncData == decryptData(row.encrypted_data, UserId, table)
        IN  IF ~syncData.ok
            THEN [hasData |-> FALSE, hasError |-> TRUE, error |-> MsgDownloadFailed]
            ELSE [hasData |-> TRUE, hasError |-> FALSE, data |-> syncData.value]

\* Faulty variant: every cloud record is pushed, whether its id is held locally or not.
mergedRecordsAll(localRecords, cloudRecords) == localRecords \o cloudRecords

\* Faulty variant: a cloud record takes the place of the local record with its id.
mergedRecordsCloudWins(localRecords, cloudRecords) ==
    [i \in 1..Len(localRecords) |->
        IF \E j \in 1..Len(cloudRecords) : cloudRecords[j].id = localRecords[i].id
        THEN cloudRecords[CHOOSE j \in 1..Len(cloudRecords) :
                              cloudRecords[j].id = localRecords[i].id]
        ELSE localRecords[i]]
    \o SelectSeq(cloudRecords,
                 LAMBDA c : \A i \in 1..Len(localRecords) : localRecords[i].id # c.id)

\* Faulty variant: the cloud records are dropped, the local list is kept.
mergedRecordsLocalOnly(localRecords, cloudRecords) == localRecords

\* The loop of sync over cloudData.records: `merged` grows, localIds does not.
RECURSIVE MergeLoop(_, _, _)
MergeLoop(merged, localIds, cloudRecords) ==
    IF cloudRecords = <<>> THEN merged
    ELSE LET cloudRecord == Head(cloudRecords)
         IN  MergeLoop(IF cloudRecord.id \notin localIds
                       THEN Append(merged, cloudRecord)
                       ELSE merged,
                       localIds, Tail(cloudRecords))

\* mergedRecords as sync leaves it after the loop.
mergedRecords(localRecords, cloudRecords) ==
    MergeLoop(localRecords,
              {localRecords[i].id : i \in 1..Len(localRecords)},
              cloudRecords)

\* sync(localRecords). signedIn and signedInLater are what getCurrentUser
\* finds at the download and at the upload. `built` is recordsToUpload.
sync(localRecords, configured, signedIn, signedInLater, selectFails, upsertFails, recordsDb, settingsDb, table, used, row, now) ==
    LET same == [dbRecords |-> recordsDb, table |-> table, used |-> used, row |-> row]
        down == downloadFromCloud(configured, signedIn, selectFails, row, table)
    IN  IF down.hasError
        THEN [success |-> FALSE, error |-> down.error,
              reached |-> FALSE, merging |-> FALSE, built |-> <<>>] @@ same
        ELSE IF down.hasData /\ "records" \notin DOMAIN down.data
        THEN [success |-> FALSE, error |-> MsgSyncFailed,
              reached |-> FALSE, merging |-> FALSE, built |-> <<>>] @@ same
        ELSE
            LET merging == down.hasData /\ Len(down.data.records) > 0
                built   == IF merging
                           THEN mergedRecords(localRecords, down.data.records)
                           ELSE localRecords
                saved   == IF merging THEN saveRecords(recordsDb, built)
                           ELSE [ok |-> TRUE, db |-> recordsDb]
            IN  IF ~saved.ok
                THEN [success |-> FALSE, error |-> MsgSyncFailed,
                      reached |-> TRUE, merging |-> merging, built |-> built] @@ same
                ELSE
                    LET up == uploadToCloud(built, configured, signedInLater,
                                  upsertFails, settingsDb, table, used, row, now)
                    IN  [reached |-> TRUE, merging |-> merging, built |-> built,
                         dbRecords |-> saved.db] @@ up

\* The record list of the row, as a client with the user's id reads it.
RemoteRecords(row, table) ==
    LET down == downloadFromCloud(TRUE, TRUE, FALSE, row, table)
    IN  IF down.hasData /\ ~down.hasError THEN down.data.records ELSE <<>>

\* Faulty variant: a sync that builds the merged list and leaves the store alone.
SyncUnapplied(configured, signedIn, signedInLater, selectFails, upsertFails, now) ==
    /\ Len(sealed) <= MaxUploads
    /\ \E r \in {sync(records, configured, signedIn, signedInLater, selectFails,
                     upsertFails, dbRecords, dbSettings, sealed, usedRandom, cloudRow, now)} :
        /\ sealed' = r.table
        /\ usedRandom' = r.used
        /\ cloudRow' = r.row
        /\ last' = [op |-> "sync", localRecords |-> records,
                    cloudRecords |-> RemoteRecords(cloudRow, sealed),
                    selectFailed |-> configured /\ signedIn /\ selectFails,
                    reached |-> r.reached, merging |-> r.merging, built |-> r.built,
                    outcome |-> IF r.success THEN [success |-> TRUE]
                                ELSE [success |-> FALSE, error |-> r.error]]
    /\ UNCHANGED <<lockVars, privacyVars, starts,
                   appVars, storeVars, decryptErrorMessage, backups, idbVars, essVars>>

\* cloudSyncService.sync(records)
Sync(configured, signedIn, signedInLater, selectFails, upsertFails, now) ==
    /\ Len(sealed) <= MaxUploads
    /\ \E r \in {sync(records, configured, signedIn, signedInLater, selectFails,
                     upsertFails, dbRecords, dbSettings, sealed, usedRandom, cloudRow, now)} :
        /\ dbRecords' = r.dbRecords
        /\ sealed' = r.table
        /\ usedRandom' = r.used
        /\ cloudRow' = r.row
        /\ last' = [op |-> "sync", localRecords |-> records,
                    cloudRecords |-> RemoteRecords(cloudRow, sealed),
                    selectFailed |-> configured /\ signedIn /\ selectFails,
                    reached |-> r.reached, merging |-> r.merging, built |-> r.built,
                    outcome |-> IF r.success THEN [success |-> TRUE]
                                ELSE [success |-> FALSE, error |-> r.error]]
    /\ UNCHANGED <<lockVars, privacyVars, starts,
                   appVars, dbSettings, decryptErrorMessage, backups, idbVars, essVars>>

\* What another device of the same user left in the row.
RemoteSalt == [i \in 1..SALT_BYTES |-> 201]
RemoteIv   == [i \in 1..IV_BYTES |-> 202]
RemoteSettings ==
    [pin |-> "4321", decoyPin |-> Undefined, lockEnabled |-> "true", userName |-> "Bea"]
RemoteSealed(cloudRecords) ==
    << [key |-> deriveKey(UserId, RemoteSalt), iv |-> RemoteIv,
        plaintext |-> JsonStringify([version    |-> SYNC_VERSION,
                                     lastSynced |-> "2025-12-31T00:00:00.000Z",
                                     records    |-> cloudRecords,
                                     settings   |-> RemoteSettings])] >>
RemoteRow == Row(arrayBufferToBase64(RemoteSalt \o RemoteIv \o CipherBytes(1)))
\* Rows no client of this user can open: sealed under another key, cut short,
\* not base64, and a row whose encrypted_data is ''.
UnreadableRows ==
    { Row(arrayBufferToBase64(RemoteIv \o RemoteSalt \o CipherBytes(1))),
      Row(arrayBufferToBase64(RemoteSalt)),
      Row(<<NotBase64>>),
      Row(<<>>) }

InitSync ==
    /\ records \in RecordLists
    /\ dbRecords = saveRecords(EmptyStore, records).db
    /\ appPhase = "ready"
    /\ localStorage = NoLocalItems
    /\ dbSettings \in {AllSettings, ClearedSettings}
    /\ \E cloudRecords \in RecordLists :
          /\ sealed = RemoteSealed(cloudRecords)
          /\ cloudRow \in IF cloudRecords = <<>>
                          THEN {NoRow, RemoteRow} \cup UnreadableRows
                          ELSE {RemoteRow}
    /\ usedRandom = {}
    /\ decryptErrorMessage = <<>>
    /\ backups = <<>>
    /\ txns = <<>>
    /\ ops = <<>>
    /\ evidence = <<>>
    /\ nextRowId = 1
    /\ platform = [isNative |-> FALSE, subtle |-> TRUE]
    /\ InitShell
    /\ last = [op |-> "none"]

NextSync ==
    \E configured, signedIn, signedInLater, selectFails, upsertFails \in BOOLEAN,
       now \in Clock :
        Sync(configured, signedIn, signedInLater, selectFails, upsertFails, now)

SpecSync == InitSync /\ [][NextSync]_vars

-----------------------------------------------------------------------------
(* The App specification: the Add form, edits and deletions.               *)

InitApp ==
    /\ records \in {<<>>, <<RecA>>, <<RecC, RecA>>}
    /\ appPhase = "ready"
    /\ localStorage = NoLocalItems
    /\ dbRecords = SaveEffect(EmptyStore, NoLocalItems, records).dbRecords
    /\ dbSettings = NoSettings
    /\ sealed = <<>>
    /\ usedRandom = {}
    /\ decryptErrorMessage = <<>>
    /\ backups = <<>>
    /\ cloudRow = NoRow
    /\ txns = <<>>
    /\ ops = <<>>
    /\ evidence = <<>>
    /\ nextRowId = 1
    /\ platform = [isNative |-> FALSE, subtle |-> TRUE]
    /\ InitShell
    /\ last = [op |-> "none", before |-> records]

NextApp ==
    \/ \E record \in FormInputs, timestamp \in AppClock : AddRecord(record, timestamp)
    \/ \E id \in {"r1", "u1"}, updates \in UpdateInputs : UpdateRecord(id, updates)
    \/ \E id \in {"r1", "r2", "u1"} : DeleteRecord(id)

SpecApp == InitApp /\ [][NextApp]_vars

-----------------------------------------------------------------------------
(* The App over several starts: the first start finds what an earlier      *)
(* version of the app left in localStorage.                                *)

LegacyItems ==
    { NoLocalItems,
      [recordKeeper_records |-> <<RecA>>],
      [recordKeeper_records |-> <<RecC, RecA>>, recordKeeper_pin |-> "1234"] }

InitStarts ==
    /\ records = <<>>
    /\ appPhase = "loading"
    /\ localStorage \in LegacyItems
    /\ dbRecords = EmptyStore
    /\ dbSettings = NoSettings
    /\ sealed = <<>>
    /\ usedRandom = {}
    /\ decryptErrorMessage = <<>>
    /\ backups = <<>>
    /\ cloudRow = NoRow
    /\ txns = <<>>
    /\ ops = <<>>
    /\ evidence = <<>>
    /\ nextRowId = 1
    /\ platform = [isNative |-> FALSE, subtle |-> TRUE]
    /\ activeTab = "home"
    /\ isLocked = FALSE
    /\ isDecoyMode = FALSE
    /\ pin = Null
    /\ decoyPin = Null
    /\ starts = 0
    /\ enabled = FALSE
    /\ calls = <<>>
    /\ last = [op |-> "none"]

NextStarts ==
    \/ LoadData
    \/ Restart
    \/ \E record \in FormInputs, timestamp \in AppClock : AddRecord(record, timestamp)
    \/ \E id \in {"r1", "r2", "u1"} : DeleteRecord(id)

SpecStarts == InitStarts /\ [][NextStarts]_vars

-----------------------------------------------------------------------------
(* IndexedDBStorage, request by request. A call makes one transaction on   *)
(* the records store and queues its requests; the browser runs a readwrite *)
(* transaction alone and in the order created, readonly ones side by side. *)

Request(type, value) == [type |-> type, value |-> value]

RECURSIVE AddRequests(_)
AddRequests(list) ==
    IF list = <<>> THEN <<>>
    ELSE <<Request("add", Head(list))>> \o AddRequests(Tail(list))

\* The transaction a call makes: its mode, the requests queued before the
\* executor returns, whether the executor threw, and whether the promise is
\* settled by transaction.oncomplete (saveRecords) or by request.onsuccess.
saveRecordsTxn(list) ==
    [mode |-> "readwrite",
     requests |-> <<Request("clear", <<>>)>> \o AddRequests(KeyedPrefix(list)),
     threw |-> Len(KeyedPrefix(list)) < Len(list),
     onComplete |-> TRUE]
getRecordsTxn ==
    [mode |-> "readonly", requests |-> <<Request("getAll", <<>>)>>,
     threw |-> FALSE, onComplete |-> FALSE]
addRecordTxn(record) ==
    [mode |-> "readwrite",
     requests |-> IF HasKey(record) THEN <<Request("add", record)>> ELSE <<>>,
     threw |-> ~HasKey(record), onComplete |-> FALSE]
updateRecordTxn(record) ==
    [mode |-> "readwrite",
     requests |-> IF HasKey(record) THEN <<Request("put", record)>> ELSE <<>>,
     threw |-> ~HasKey(record), onComplete |-> FALSE]
deleteRecordTxn(id) ==
    [mode |-> "readwrite", requests |-> <<Request("delete", id)>>,
     threw |-> FALSE, onComplete |-> FALSE]

TxnOf(op, arg) ==
    CASE op = "saveRecords"  -> saveRecordsTxn(arg)
      [] op = "getRecords"   -> getRecordsTxn
      [] op = "addRecord"    -> addRecordTxn(arg)
      [] op = "updateRecord" -> updateRecordTxn(arg)
      [] op = "deleteRecord" -> deleteRecordTxn(arg)

\* The indices of the calls whose promise is settled.
Settled(log) == {i \in 1..Len(log) : log[i].status # "pending"}

\* A call of IndexedDBStorage: the promise executor runs to its end.
Call(op, arg) ==
    /\ Len(ops) < MaxOps
    /\ LET t == TxnOf(op, arg)
       IN  /\ ops' = Append(ops, [op |-> op, arg |-> arg,
                                  status |-> IF t.threw THEN "rejected" ELSE "pending",
                                  result |-> <<>>,
                                  after  |-> Settled(ops)])
           /\ txns' = Append(txns, [call |-> Len(ops) + 1, mode |-> t.mode,
                                    requests |-> t.requests, began |-> FALSE,
                                    undo |-> EmptyStore, onComplete |-> t.onComplete])
    /\ UNCHANGED <<lockVars, privacyVars, starts,
                   appVars, storeVars, cryptoVars, backups, cloudRow, essVars, last>>

\* A transaction may run when every transaction made before it has finished,
\* or when it and all of those are readonly.
Runnable(i) ==
    /\ i \in 1..Len(txns)
    /\ \/ i = 1
       \/ \A j \in 1..i : txns[j].mode = "readonly"

Without(seq, i) == SubSeq(seq, 1, i - 1) \o SubSeq(seq, i + 1, Len(seq))

\* The store after a request that succeeds.
Executed(db, request) ==
    CASE request.type = "clear"  -> EmptyStore
      [] request.type = "delete" -> [k \in DOMAIN db \ {request.value} |-> db[k]]
      [] request.type \in {"add", "put"} ->
            [k \in DOMAIN db \cup {request.value.id} |->
                IF k = request.value.id THEN request.value ELSE db[k]]
      [] OTHER -> db

\* store.add of a key the store holds: ConstraintError.
Refused(db, request) == request.type = "add" /\ request.value.id \in DOMAIN db

Settle(log, call, status, result) ==
    IF log[call].status = "pending"
    THEN [log EXCEPT ![call].status = status, ![call].result = result]
    ELSE log

\* The next request of a transaction is carried out. A refused request fires
\* an error event that nobody cancels: the handler rejects, the transaction
\* aborts and its writes are undone.
RunRequest(i) ==
    /\ Runnable(i)
    /\ txns[i].requests # <<>>
    /\ LET t       == txns[i]
           request == Head(t.requests)
           before  == IF t.began THEN t.undo ELSE dbRecords
       IN  IF Refused(dbRecords, request)
           THEN /\ dbRecords' = before
                /\ txns' = Without(txns, i)
                /\ ops' = Settle(ops, t.call, "rejected", <<>>)
           ELSE /\ dbRecords' = Executed(dbRecords, request)
                /\ txns' = [txns EXCEPT ![i].requests = Tail(t.requests),
                                        ![i].began = TRUE, ![i].undo = before]
                /\ ops' = IF t.onComplete THEN ops
                          ELSE Settle(ops, t.call, "resolved",
                                      IF request.type = "getAll"
                                      THEN getRecords(dbRecords) ELSE <<>>)
    /\ UNCHANGED <<lockVars, privacyVars, starts,
                   appVars, dbSettings, cryptoVars, backups, cloudRow, essVars, last>>

\* A transaction with no request left commits: complete fires.
Commit(i) ==
    /\ Runnable(i)
    /\ txns[i].requests = <<>>
    /\ txns' = Without(txns, i)
    /\ ops' = IF txns[i].onComplete THEN Settle(ops, txns[i].call, "resolved", <<>>)
              ELSE ops
    /\ UNCHANGED <<lockVars, privacyVars, starts,
                   appVars, storeVars, cryptoVars, backups, cloudRow, essVars, last>>

\* The commit of a readwrite transaction fails (quota, disk): abort fires,
\* the writes are undone, and no handler of the storage class hears of it.
CommitFails(i) ==
    /\ Runnable(i)
    /\ txns[i].requests = <<>>
    /\ txns[i].mode = "readwrite"
    /\ txns[i].began
    /\ dbRecords' = txns[i].undo
    /\ txns' = Without(txns, i)
    /\ UNCHANGED <<lockVars, privacyVars, starts,
                   appVars, dbSettings, cryptoVars, backups, cloudRow, ops, essVars, last>>

\* A record read from a file of another version of the app: it has no id.
RecNoId == [description |-> "Imported entry", createdAt |-> "t4"]

SaveInputs ==
    { <<>>, <<RecC>>, <<RecC, RecA>>, <<RecA, RecB>>, <<RecC, RecNoId>>, <<RecNoId>> }

InitStore ==
    /\ records = <<>>
    /\ appPhase = "ready"
    /\ localStorage = NoLocalItems
    /\ dbRecords \in {EmptyStore, StoreOf(<<RecA>>), StoreOf(<<RecC, RecA>>)}
    /\ dbSettings = NoSettings
    /\ sealed = <<>>
    /\ usedRandom = {}
    /\ decryptErrorMessage = <<>>
    /\ backups = <<>>
    /\ cloudRow = NoRow
    /\ txns = <<>>
    /\ ops = <<>>
    /\ evidence = <<>>
    /\ nextRowId = 1
    /\ platform = [isNative |-> FALSE, subtle |-> TRUE]
    /\ InitShell
    /\ last = [op |-> "initialize", db |-> dbRecords]

NextStore ==
    \/ \E list \in SaveInputs : Call("saveRecords", list)
    \/ Call("getRecords", <<>>)
    \/ \E r \in {RecA, RecC} : Call("addRecord", r)
    \/ \E r \in {RecB, RecC} : Call("updateRecord", r)
    \/ \E id \in {"r1", "r2"} : Call("deleteRecord", id)
    \/ \E i \in 1..Len(txns) : RunRequest(i)
    \/ \E i \in 1..Len(txns) : Commit(i)
    \/ \E i \in 1..Len(txns) : CommitFails(i)

SpecStore == InitStore /\ [][NextStore]_vars

-----------------------------------------------------------------------------
(* EncryptedStorageService: the evidence records and their hashes.         *)
(* A text is a sequence of characters. An object is the sequence of its    *)
(* properties in insertion order, which is the order JSON.stringify and    *)
(* SELECT * give; a value is a number, a string or null with its text.     *)

\* TextEncoder.encode and btoa: the byte of each character.
CharCode ==
    (" " :> 32) @@ ("\"" :> 34) @@ ("," :> 44) @@ ("." :> 46) @@ ("0" :> 48) @@
    ("1" :> 49) @@ ("2" :> 50) @@ ("3" :> 51) @@ ("4" :> 52) @@ ("5" :> 53) @@
    ("6" :> 54) @@ ("7" :> 55) @@ ("8" :> 56) @@ ("9" :> 57) @@ (":" :> 58) @@
    ("_" :> 95) @@ ("a" :> 97) @@ ("b" :> 98) @@ ("c" :> 99) @@ ("d" :> 100) @@
    ("e" :> 101) @@ ("g" :> 103) @@ ("h" :> 104) @@ ("i" :> 105) @@ ("j" :> 106) @@
    ("k" :> 107) @@ ("l" :> 108) @@ ("m" :> 109) @@ ("n" :> 110) @@ ("o" :> 111) @@
    ("p" :> 112) @@ ("r" :> 114) @@ ("s" :> 115) @@ ("t" :> 116) @@ ("u" :> 117) @@
    ("x" :> 120) @@ ("y" :> 121) @@ ("{" :> 123) @@ ("}" :> 125)

Encode(text) == [i \in 1..Len(text) |-> CharCode[text[i]]]

KeyText ==
    [id |-> <<"i", "d">>,
     timestamp |-> <<"t", "i", "m", "e", "s", "t", "a", "m", "p">>,
     type |-> <<"t", "y", "p", "e">>,
     content |-> <<"c", "o", "n", "t", "e", "n", "t">>,
     tags |-> <<"t", "a", "g", "s">>,
     attachments |-> <<"a", "t", "t", "a", "c", "h", "m", "e", "n", "t", "s">>,
     hash |-> <<"h", "a", "s", "h">>,
     created_at |-> <<"c", "r", "e", "a", "t", "e", "d", "_", "a", "t">>]

Num(text)  == [t |-> "number", text |-> text]
Str(text)  == [t |-> "string", text |-> text]
JsNull     == [t |-> "null", text |-> <<"n", "u", "l", "l">>]
Prop(k, v) == [k |-> k, v |-> v]

Has(obj, k) == \E i \in 1..Len(obj) : obj[i].k = k
Value(obj, k) == obj[CHOOSE i \in 1..Len(obj) : obj[i].k = k].v

\* The decimal text of a small number, and the number of a decimal text.
Digits == <<"0", "1", "2", "3", "4", "5", "6", "7", "8", "9">>
RECURSIVE NumText(_)
NumText(n) ==
    IF n < 10 THEN <<Digits[n + 1]>>
    ELSE NumText(n \div 10) \o <<Digits[(n % 10) + 1]>>
RECURSIVE TextNum(_)
TextNum(text) ==
    IF text = <<>> THEN 0
    ELSE 10 * TextNum(SubSeq(text, 1, Len(text) - 1)) + (CharCode[text[Len(text)]] - 48)

\* JSON.stringify of a value and of an object; the texts of the model need no
\* escape.
JsonValue(v) == IF v.t = "string" THEN <<"\"">> \o v.text \o <<"\"">> ELSE v.text
RECURSIVE JsonProps(_)
JsonProps(obj) ==
    IF obj = <<>> THEN <<>>
    ELSE <<"\"">> \o KeyText[Head(obj).k] \o <<"\"", ":">> \o JsonValue(Head(obj).v)
         \o (IF Len(obj) > 1 THEN <<",">> ELSE <<>>) \o JsonProps(Tail(obj))
JsonText(obj) == <<"{">> \o JsonProps(obj) \o <<"}">>

HASH_CHARS == 64

\* generateHash: SHA-256 over the bytes of JSON.stringify(record), in hex, where the
\* platform has crypto.subtle. The digest is taken to be ideal: two documents
\* have the same digest only if they are the same, so the digest is written
\* as the document's bytes. Without crypto.subtle: the first 64 characters of
\* the document's base64.
generateHash(record, subtle) ==
    LET bytes == Encode(JsonText(record))
    IN  IF subtle
        THEN [t |-> "string", alg |-> "SHA-256", text |-> bytes]
        ELSE LET b64 == arrayBufferToBase64(bytes)
             IN  [t |-> "string", alg |-> "btoa",
                  text |-> SubSeq(b64, 1, IF Len(b64) < HASH_CHARS THEN Len(b64)
                                          ELSE HASH_CHARS)]

\* const { hash, ...recordWithoutHash } = record
WithoutHash(record) == SelectSeq(record, LAMBDA p : p.k # "hash")

verifyRecordIntegrity(record, subtle) ==
    /\ Has(record, "hash")
    /\ Value(record, "hash") = generateHash(WithoutHash(record), subtle)

\* r.id || 0
IdOrZero(r) == IF Has(r, "id") THEN TextNum(Value(r, "id").text) ELSE 0

\* saveToLocalStorage: the id is one more than the largest id in the item.
saveToLocalStorage(record, store) ==
    LET ids == {IdOrZero(store[i]) : i \in 1..Len(store)}
        id  == IF Len(store) > 0
               THEN (CHOOSE m \in ids : \A n \in ids : n <= m) + 1
               ELSE 1
    IN  [id |-> id, store |-> Append(store, record \o <<Prop("id", Num(NumText(id)))>>)]

\* The row INSERT makes: the columns in the table's order, the rowid from
\* AUTOINCREMENT, attachments || null, created_at by default.
InsertRow(record, rowid, seconds) ==
    << Prop("id", Num(NumText(rowid))),
       Prop("timestamp", Value(record, "timestamp")),
       Prop("type", Value(record, "type")),
       Prop("content", Value(record, "content")),
       Prop("tags", Value(record, "tags")),
       Prop("attachments", IF Has(record, "attachments") /\ Value(record, "attachments").text # <<>>
                           THEN Value(record, "attachments") ELSE JsNull),
       Prop("hash", Value(record, "hash")),
       Prop("created_at", Num(seconds)) >>

\* saveRecord: hash the record as given, then store it with the hash.
saveRecord(record, store, rowid, plat, seconds) ==
    LET recordWithHash == record \o <<Prop("hash", generateHash(record, plat.subtle))>>
    IN  IF plat.isNative
        THEN [id |-> rowid, store |-> Append(store, InsertRow(recordWithHash, rowid, seconds)),
              rowid |-> rowid + 1]
        ELSE LET saved == saveToLocalStorage(recordWithHash, store)
             IN  [id |-> saved.id, store |-> saved.store, rowid |-> rowid]

\* Numbers of the same width compare as their texts do.
RECURSIVE TextLess(_, _)
TextLess(a, b) ==
    IF Len(a) # Len(b) THEN Len(a) < Len(b)
    ELSE IF a = <<>> THEN FALSE
    ELSE IF Head(a) # Head(b) THEN CharCode[Head(a)] < CharCode[Head(b)]
    ELSE TextLess(Tail(a), Tail(b))

\* getAllRecords: the item as stored, or the rows ORDER BY timestamp DESC.
\* SQLite leaves the order of rows with equal timestamps open, so the result
\* is any of the lists that ORDER BY allows.
getAllRecords(store, plat) ==
    IF ~plat.isNative THEN {store}
    ELSE {[i \in 1..Len(store) |-> store[f[i]]] :
            f \in {g \in [1..Len(store) -> 1..Len(store)] :
                     /\ \A a, b \in 1..Len(store) : a # b => g[a] # g[b]
                     /\ \A a, b \in 1..Len(store) :
                           a < b => ~TextLess(Value(store[g[a]], "timestamp").text,
                                              Value(store[g[b]], "timestamp").text)}}

\* deleteRecord(id) of EncryptedStorageService.
evidenceDeleteRecord(id, store) ==
    SelectSeq(store, LAMBDA r : ~(Has(r, "id") /\ TextNum(Value(r, "id").text) = id))

\* What callers save.
EvLate ==
    << Prop("timestamp", Num(<<"1", "7", "0", "0", "0", "0", "0", "0", "0", "0", "0", "0", "0">>)),
       Prop("type", Str(<<"n", "o", "t", "e">>)),
       Prop("content", Str(<<"l", "a", "t", "e", " ", "p", "i", "c", "k", "u", "p", ",", " ", "2", "0", " ", "m", "i", "n">>)),
       Prop("tags", Str(<<"c", "u", "s", "t", "o", "d", "y">>)) >>
EvLateAgain ==
    << Prop("timestamp", Num(<<"1", "7", "0", "0", "0", "0", "0", "3", "6", "0", "0", "0", "0">>)),
       Prop("type", Str(<<"n", "o", "t", "e">>)),
       Prop("content", Str(<<"l", "a", "t", "e", " ", "p", "i", "c", "k", "u", "p", ",", " ", "2", "0", " ", "m", "i", "n">>)),
       Prop("tags", Str(<<"c", "u", "s", "t", "o", "d", "y">>)) >>
EvPhoto ==
    << Prop("timestamp", Num(<<"1", "7", "0", "0", "0", "0", "0", "0", "0", "0", "0", "0", "0">>)),
       Prop("type", Str(<<"p", "h", "o", "t", "o">>)),
       Prop("content", Str(<<"b", "r", "u", "i", "s", "e", " ", "o", "n", " ", "a", "r", "m">>)),
       Prop("tags", Str(<<"i", "n", "j", "u", "r", "y">>)),
       Prop("attachments", Str(<<"i", "m", "g", "1", ".", "j", "p", "g">>)) >>
EvidenceInputs == {EvLate, EvLateAgain, EvPhoto}

\* strftime('%s', 'now')
NowSeconds == <<"1", "7", "0", "0", "0", "0", "0", "4", "0", "0">>

SavesMade == Cardinality({i \in 1..Len(ops) : ops[i].op = "saveRecord"})

SaveRecord(record) ==
    /\ SavesMade < MaxSaves
    /\ \E r \in {saveRecord(record, evidence, nextRowId, platform, NowSeconds)} :
         /\ evidence' = r.store
         /\ nextRowId' = r.rowid
         /\ ops' = Append(ops, [op |-> "saveRecord", arg |-> record, status |-> "resolved",
                                result |-> r.id, after |-> Settled(ops)])
         /\ last' = [op |-> "saveRecord", id |-> r.id]
    /\ UNCHANGED <<lockVars, privacyVars, starts,
                   appVars, storeVars, cryptoVars, backups, cloudRow, txns, platform>>

EvidenceDeleteRecord(id) ==
    /\ evidence' = evidenceDeleteRecord(id, evidence)
    /\ last' = [op |-> "deleteRecord", id |-> id]
    /\ UNCHANGED <<lockVars, privacyVars, starts,
                   appVars, storeVars, cryptoVars, backups, cloudRow, idbVars, nextRowId,
                   platform>>

GetAllRecords ==
    /\ \E result \in getAllRecords(evidence, platform) :
         last' = [op |-> "getAllRecords", result |-> result]
    /\ UNCHANGED <<lockVars, privacyVars, starts,
                   appVars, storeVars, cryptoVars, backups, cloudRow, idbVars, essVars>>

CoveredFields == {"content", "tags", "type", "attachments"}

\* A text with the character at one position replaced by another character.
ChangeAt(text, pos) ==
    [text EXCEPT ![pos] = IF text[pos] = "x" THEN "y" ELSE "x"]

\* The records that differ from a record in one covered field, at its first
\* or its last character; the hash is the one recorded.
Mutations(record) ==
    {[record EXCEPT ![i].v.text = ChangeAt(record[i].v.text, pos)] :
        i \in {n \in 1..Len(record) : record[n].k \in CoveredFields /\ record[n].v.t = "string"},
        pos \in {1, 2}} \cup
    {[record EXCEPT ![i].v.text = ChangeAt(record[i].v.text, Len(record[i].v.text))] :
        i \in {n \in 1..Len(record) : record[n].k \in CoveredFields /\ record[n].v.t = "string"}}

\* verifyRecordIntegrity on a record read with getAllRecords: as read, with
\* one covered field changed, or with the hash taken away.
VerifyRecordIntegrity ==
    /\ \E list \in getAllRecords(evidence, platform) :
         \E n \in 1..Len(list) :
           \E record \in {list[n], WithoutHash(list[n])} \cup Mutations(list[n]) :
              last' = [op |-> "verifyRecordIntegrity", stored |-> list[n], record |-> record,
                       result |-> verifyRecordIntegrity(record, platform.subtle)]
    /\ UNCHANGED <<lockVars, privacyVars, starts,
                   appVars, storeVars, cryptoVars, backups, cloudRow, idbVars, essVars>>

InitEvidence ==
    /\ records = <<>>
    /\ appPhase = "ready"
    /\ localStorage = NoLocalItems
    /\ dbRecords = EmptyStore
    /\ dbSettings = NoSettings
    /\ sealed = <<>>
    /\ usedRandom = {}
    /\ decryptErrorMessage = <<>>
    /\ backups = <<>>
    /\ cloudRow = NoRow
    /\ txns = <<>>
    /\ ops = <<>>
    /\ evidence = <<>>
    /\ nextRowId = 1
    /\ platform \in [isNative : BOOLEAN, subtle : BOOLEAN]
    /\ InitShell
    /\ last = [op |-> "initialize"]

NextEvidence ==
    \/ \E record \in EvidenceInputs : SaveRecord(record)
    \/ \E id \in 1..(MaxSaves + 1) : EvidenceDeleteRecord(id)
    \/ GetAllRecords
    \/ VerifyRecordIntegrity

SpecEvidence == InitEvidence /\ [][NextEvidence]_vars

-----------------------------------------------------------------------------
(* Properties of backup and restore.                                       *)

\* The envelope the last restore was given, if it was given one.
RestoredEnvelope ==
    IF last.op = "restoreBackup" THEN last.envelope
    ELSE IF last.op = "handleRestoreBackup" /\ last.called /\ last.file.kind = "json"
         THEN last.file.doc
    ELSE None

RestoreRan ==
    \/ last.op = "restoreBackup"
    \/ last.op = "handleRestoreBackup" /\ last.called

\* C1 (round trip): a restore of an envelope createBackup produced, under the
\* password it was produced with, succeeds and returns records and settings
\* that read, field for field, as the records passed to createBackup and the
\* settings the store held at that time.
C1_RoundTrip ==
    \A i \in 1..Len(backups) :
        (/\ RestoreRan
         /\ RestoredEnvelope = backups[i].envelope
         /\ last.password = backups[i].password)
        => /\ last.outcome.ok
           /\ SameRecordList(last.outcome.value.records, backups[i].snapshot.records)
           /\ SameSettings(last.outcome.value.settings, backups[i].snapshot.settings)

\* A two-record snapshot whose records carry an explicit undefined and whose
\* settings hold null, '' and absent values has made the round trip.
C1_Witness ==
    \E i \in 1..Len(backups) :
        /\ last.op = "restoreBackup"
        /\ last.envelope = backups[i].envelope
        /\ last.password = backups[i].password
        /\ last.outcome.ok
        /\ backups[i].snapshot.records = <<RecC, RecA>>
        /\ backups[i].snapshot.settings.pin = Null
        /\ backups[i].snapshot.settings.decoyPin = Undefined
        /\ last.outcome.value.records # backups[i].snapshot.records

\* C2 (tamper detection): a restore of an envelope that differs in one bit of
\* its data from an envelope createBackup produced (given the password it was
\* produced with) fails with 'Incorrect password or corrupted backup file'
\* and returns no snapshot.
C2_TamperDetected ==
    \A i \in 1..Len(backups) :
        (/\ RestoreRan
         /\ RestoredEnvelope \in BitFlipped(backups[i].envelope)
         /\ last.password = backups[i].password)
        => /\ ~last.outcome.ok
           /\ last.outcome.error = MsgIncorrectPassword

\* C3 (wrong password): a restore of an envelope createBackup produced, under
\* another non-empty password, fails with 'Incorrect password or corrupted
\* backup file'.
C3_WrongPassword ==
    \A i \in 1..Len(backups) :
        (/\ RestoreRan
         /\ RestoredEnvelope = backups[i].envelope
         /\ last.password \notin {"", backups[i].password})
        => /\ ~last.outcome.ok
           /\ last.outcome.error = MsgIncorrectPassword

\* An envelope with a field that is not base64.
MalformedEncoding(envelope) ==
    \/ ~base64ToArrayBuffer(envelope.salt).ok
    \/ ~base64ToArrayBuffer(envelope.iv).ok
    \/ ~base64ToArrayBuffer(envelope.data).ok

\* An envelope that opens under ForeignPassword to a plaintext that is not
\* JSON, or is JSON without the fields of a snapshot.
NotASnapshot(envelope) ==
    /\ envelope \in ForeignEnvelopes
    /\ \E n \in 1..Len(ForeignSealed) :
          /\ base64ToArrayBuffer(envelope.data).bytes = CipherBytes(n)
          /\ IF ForeignSealed[n].plaintext.kind = "json"
             THEN "records" \notin DOMAIN ForeignSealed[n].plaintext.doc
             ELSE TRUE

\* C4 (corrupt backup): a restore of a structurally invalid envelope fails, and
\* its error differs from the error of a restore that fails authentication (a
\* produced envelope under another non-empty password).
C4_CorruptDistinct ==
    /\ (/\ RestoreRan
        /\ RestoredEnvelope # None
        /\ \/ last.password # "" /\ MalformedEncoding(RestoredEnvelope)
           \/ last.password = ForeignPassword /\ NotASnapshot(RestoredEnvelope))
       => /\ ~last.outcome.ok
          /\ last.outcome.error = MsgRestoreFailed
    /\ \A i \in 1..Len(backups) :
          (/\ RestoreRan
           /\ RestoredEnvelope = backups[i].envelope
           /\ last.password \notin {"", backups[i].password})
          => /\ ~last.outcome.ok
             /\ last.outcome.error # MsgRestoreFailed

\* C5 (weak password): a createBackup with a password of fewer than six
\* characters fails with 'Password must be at least 6 characters' having made
\* no store or platform call, and it adds no envelope, seals nothing and draws
\* no random value; handleCreateBackup refuses such a password without a call.
C5_WeakPasswordRejected ==
    [][ /\ (last'.op = "createBackup" /\ Len(last'.password) < 6)
           => /\ ~last'.outcome.ok
              /\ last'.outcome.error = MsgPasswordTooShort
              /\ last'.outcome.calls = <<>>
              /\ UNCHANGED <<backups, sealed, usedRandom>>
        /\ (last'.op = "handleCreateBackup" /\ Len(last'.password) < 6)
           => /\ ~last'.called
              /\ last'.alert = MsgPasswordTooShort
              /\ UNCHANGED <<backups, sealed, usedRandom>> ]_vars

\* createBackup has refused a five-character password.
C5_Witness ==
    /\ last.op = "createBackup"
    /\ last.password = "12345"
    /\ ~last.outcome.ok
    /\ last.outcome.calls = <<>>

\* C6 (no store mutation): a step of createBackup or restoreBackup, succeeding
\* or failing, leaves the records and settings of the store as they were, and
\* so does a handleRestoreBackup whose restoreFromFile failed.
C6_CodecLeavesStore ==
    [][ /\ last'.op \in {"createBackup", "handleCreateBackup", "restoreBackup"}
           => UNCHANGED storeVars
        /\ (last'.op = "handleRestoreBackup" /\ (~last'.called \/ ~last'.outcome.ok))
           => UNCHANGED storeVars ]_vars

\* restoreBackup has returned a snapshot that differs from the store, and the
\* store still holds what it held.
C6_Witness ==
    /\ last.op = "restoreBackup"
    /\ last.outcome.ok
    /\ "records" \in DOMAIN last.outcome.value
    /\ StoreOf(last.outcome.value.records) # dbRecords
    /\ dbRecords = StoreOf(<<RecA>>)

\* C7 (fresh salt and nonce): no two envelopes produced by createBackup have
\* the same salt, the same iv or the same data. The random source is taken to
\* be ideal (it does not repeat a value).
C7_FreshEnvelopes ==
    \A i, j \in 1..Len(backups) :
        i # j => /\ backups[i].envelope.salt # backups[j].envelope.salt
                 /\ backups[i].envelope.iv # backups[j].envelope.iv
                 /\ backups[i].envelope.data # backups[j].envelope.data

\* Two backups of the same records and settings under the same password.
C7_Witness ==
    /\ Len(backups) = 2
    /\ backups[1].password = backups[2].password
    /\ backups[1].snapshot = backups[2].snapshot

-----------------------------------------------------------------------------
(* Properties of sync.                                                     *)

LocalIds == {last.localRecords[i].id : i \in 1..Len(last.localRecords)}

\* C8 (merge policy): the list sync builds from the local list L and the list
\* R of the cloud row is L, record for record, followed by those records of R,
\* in the order of R, whose id no record of L has; when sync succeeds that is
\* the list the cloud row then holds.
C8_MergePolicy ==
    (last.op = "sync" /\ last.reached)
    => /\ Len(last.built) >= Len(last.localRecords)
       /\ SubSeq(last.built, 1, Len(last.localRecords)) = last.localRecords
       /\ SubSeq(last.built, Len(last.localRecords) + 1, Len(last.built))
              = SelectSeq(last.cloudRecords, LAMBDA c : c.id \notin LocalIds)
       /\ last.outcome.success
              => SameRecordList(RemoteRecords(cloudRow, sealed), last.built)

\* Sync has kept the local r1 though the row held other content for r1, and
\* has taken r2 from the row.
C8_Witness ==
    /\ last.op = "sync"
    /\ last.outcome.success
    /\ last.localRecords = <<RecA>>
    /\ Len(last.cloudRecords) = 2
    /\ last.cloudRecords[1].id = "r1" /\ last.cloudRecords[1] # RecA
    /\ last.cloudRecords[2].id = "r2"
    /\ Len(last.built) = 2

\* C9 (idempotent merge): when the cloud row holds the records of the local
\* list, in its order, the list sync builds is the local list.
C9_IdempotentMerge ==
    (/\ last.op = "sync"
     /\ last.reached
     /\ SameRecordList(last.cloudRecords, last.localRecords))
    => last.built = last.localRecords

\* Sync has merged a two-record list with a row that holds the same records.
C9_Witness ==
    /\ last.op = "sync"
    /\ last.merging
    /\ last.outcome.success
    /\ last.localRecords = <<RecC, RecA>>
    /\ SameRecordList(last.cloudRecords, last.localRecords)

\* C10 (at most once per id): the list sync builds from a local list with no
\* id twice holds no id twice, whatever the cloud row holds.
C10_AtMostOncePerId ==
    (/\ last.op = "sync"
     /\ last.reached
     /\ NoDuplicateIds(last.localRecords))
    => NoDuplicateIds(last.built)

Undecodable(row, table) ==
    /\ row.kind = "row"
    /\ row.encrypted_data # <<>>
    /\ ~decryptData(row.encrypted_data, UserId, table).ok

\* C12 (download failure): when the select answers with an error, or the row
\* cannot be decoded, sync answers with an error and has built no list, written
\* nothing to the store and uploaded nothing.
C12_DownloadFailureIsAtomic ==
    [][(last'.op = "sync" /\ (last'.selectFailed \/ Undecodable(cloudRow, sealed)))
       => /\ ~last'.outcome.success
          /\ ~last'.reached
          /\ last'.built = <<>>
          /\ UNCHANGED <<storeVars, cloudRow, sealed>>]_vars

\* A sync of a non-empty list has failed at a row that cannot be decoded.
C12_Witness ==
    /\ last.op = "sync"
    /\ Undecodable(cloudRow, sealed)
    /\ last.localRecords = <<RecC, RecA>>
    /\ last.outcome = [success |-> FALSE, error |-> MsgDownloadFailed]

-----------------------------------------------------------------------------
(* Properties of the record store.                                          *)

Writes == {"saveRecords", "addRecord", "updateRecord", "deleteRecord"}

\* A read that was started after call i had settled, and has its answer.
ReadAfter(i, j) ==
    /\ ops[j].op = "getRecords"
    /\ ops[j].status = "resolved"
    /\ i \in ops[j].after

\* Call i is the only write of the behaviour so far.
OnlyWrite(i) == \A k \in 1..Len(ops) : k # i => ops[k].op = "getRecords"

WellFormed(list) == Len(KeyedPrefix(list)) = Len(list) /\ NoDuplicateIds(list)

\* C13 (replaceAll atomicity): when saveRecords(new) has failed and nothing
\* else wrote, every getRecords started afterwards returns the complete old
\* record set or the complete new record set, never an empty or a mixed one.
C13_ReplaceAllAtomic ==
    \A i, j \in 1..Len(ops) :
        (/\ ops[i].op = "saveRecords"
         /\ ops[i].status = "rejected"
         /\ OnlyWrite(i)
         /\ ReadAfter(i, j))
        => \/ ops[j].result = getRecords(last.db)
           \/ /\ WellFormed(ops[i].arg)
              /\ ops[j].result = getRecords(StoreOf(ops[i].arg))

\* The store after a write that completed is carried out on its own.
Written(db, call) ==
    CASE call.op = "saveRecords"  -> StoreOf(call.arg)
      [] call.op = "addRecord"    -> Executed(db, Request("add", call.arg))
      [] call.op = "updateRecord" -> Executed(db, Request("put", call.arg))
      [] call.op = "deleteRecord" -> Executed(db, Request("delete", call.arg))

RECURSIVE Serial(_, _)
Serial(db, order) ==
    IF order = <<>> THEN db
    ELSE Serial(Written(db, ops[Head(order)]), Tail(order))

CompletedWrites == {i \in 1..Len(ops) : ops[i].op \in Writes /\ ops[i].status = "resolved"}

\* The orders in which some of the completed writes can be carried out.
SerialOrders ==
    {order \in SeqsUpTo(CompletedWrites, Cardinality(CompletedWrites)) :
        \A a, b \in 1..Len(order) : a # b => order[a] # order[b]}

\* C14 (overlapping calls): every getRecords result equals the contents the
\* store has after some serial order of completed writes; no read sees what
\* is inside a saveRecords, such as the store cleared and not yet refilled.
C14_ReadsSeeSerialOrder ==
    \A j \in 1..Len(ops) :
        (ops[j].op = "getRecords" /\ ops[j].status = "resolved")
        => \E order \in SerialOrders :
              ops[j].result = getRecords(Serial(last.db, order))

\* C15 (read your writes): once updateRecord(r) or deleteRecord(id) has
\* resolved and nothing else wrote, every getRecords started afterwards holds
\* r with exactly the written fields, respectively no record with that id.
C15_ReadYourWrites ==
    \A i, j \in 1..Len(ops) :
        (/\ ops[i].op \in {"updateRecord", "deleteRecord"}
         /\ ops[i].status = "resolved"
         /\ OnlyWrite(i)
         /\ ReadAfter(i, j))
        => IF ops[i].op = "updateRecord"
           THEN \E n \in 1..Len(ops[j].result) : ops[j].result[n] = ops[i].arg
           ELSE \A n \in 1..Len(ops[j].result) : ops[j].result[n].id # ops[i].arg

-----------------------------------------------------------------------------
(* Properties of the App's record list.                                     *)

AppStep == last.op \in {"addRecord", "updateRecord", "deleteRecord"}

\* The records of the list before the step, in order, that the step kept.
Survivors ==
    IF last.op = "deleteRecord"
    THEN SelectSeq(last.before, LAMBDA r : r.id # last.id)
    ELSE last.before

\* Where the kept records are in the list after the step.
After == IF last.op = "addRecord" THEN Tail(records) ELSE records

\* C19 (identity is immutable): after addRecord, updateRecord(id, updates) or
\* deleteRecord, every record that was in the list before and is in it after
\* has the id and the createdAt it had before, whatever updates holds.
C19_IdentityImmutable ==
    AppStep => /\ Len(After) = Len(Survivors)
               /\ \A i \in 1..Len(Survivors) :
                     /\ After[i].id = Survivors[i].id
                     /\ After[i].createdAt = Survivors[i].createdAt

-----------------------------------------------------------------------------
(* Properties of the evidence records.                                      *)

Verified == last.op = "verifyRecordIntegrity"

\* C16 (hash stability after save): a record saved with saveRecord and read
\* back with getAllRecords, unchanged, passes verifyRecordIntegrity, on the
\* native backend and on the web fallback.
C16_SavedRecordVerifies ==
    (Verified /\ last.record = last.stored) => last.result

\* C17 (mutation detection): verifyRecordIntegrity answers false for a record
\* without a stored hash and for a record with a covered field (content, tags,
\* type, attachments) changed at any position, with and without Web Crypto.
C17_MutationDetected ==
    (Verified /\ (~Has(last.record, "hash") \/ last.record \in Mutations(last.stored)))
    => ~last.result

\* The covered fields of a record, by name.
Content(record) == SelectSeq(record, LAMBDA p : p.k \in CoveredFields /\ p.v.t # "null")

\* C18 (hash independent of id, timestamps and log): two records equal in
\* all content fields have the hash generateHash gave them in common.
C18_HashOfContentOnly ==
    \A i, j \in 1..Len(evidence) :
        Content(evidence[i]) = Content(evidence[j])
        => Value(evidence[i], "hash") = Value(evidence[j], "hash")

\* C20 (ids are never reused): on the web fallback the id saveRecord gives a
\* record differs from the id of every record saved before it, deleted or not.
C20_IdsNeverReused ==
    ~platform.isNative
    => \A i, j \in 1..Len(ops) :
          (i < j /\ ops[i].op = "saveRecord" /\ ops[j].op = "saveRecord")
          => ops[i].result # ops[j].result

-----------------------------------------------------------------------------
(* Properties of settings, screens and restarts.                            *)

\* A stored setting has the value a snapshot gives it; a setting the snapshot
\* leaves unset or empty is unset or empty in the store.
SettingMatches(stored, given) ==
    IF Truthy(given) THEN stored = given ELSE ~Truthy(stored)

\* C21 (settings import is last-snapshot-wins): after applyBackup(S) completes,
\* each named setting in the store has the value it has in S.settings, also
\* when S leaves it unset or empty and the store held a value before.
C21_LastSnapshotWins ==
    (last.op = "handleRestoreBackup" /\ last.called /\ last.outcome.ok /\ last.applied)
    => \A n \in SettingNames :
          SettingMatches(getSetting(dbSettings, StoreKey[n]),
                         Get(last.outcome.value.settings, n))

\* C24 (migration only on the first start): on every later start loadData
\* leaves the records held in IndexedDB as they are; it does not put the copy
\* left in localStorage in their place.
C24_MigratesOnce ==
    (last.op = "loadData" /\ starts > 1) => dbRecords = last.before

\* C25 (records are saved whenever they change): after addRecord, updateRecord
\* or deleteRecord and the save that follows it, the records persisted in
\* IndexedDB are the records of the in-memory list, also when the last record
\* was deleted and the list is empty.
C25_PersistedEqualsMemory ==
    AppStep => getRecords(dbRecords) = getRecords(StoreOf(records))

IsPrefix(a, b) == Len(a) <= Len(b) /\ SubSeq(b, 1, Len(a)) = a

\* C26 (append-only event log): a record made by addRecord starts with the one
\* entry {timestamp, 'created'}, and updateRecord keeps the entries a record's
\* eventLog had, in their order, before anything it appends.
C26_EventLogAppendOnly ==
    /\ last.op = "addRecord"
       => /\ Len(records[1].eventLog) = 1
          /\ records[1].eventLog[1].action = "created"
    /\ last.op = "updateRecord"
       => \A i \in 1..Len(last.before) :
             "eventLog" \in DOMAIN last.before[i]
             => /\ "eventLog" \in DOMAIN records[i]
                /\ IsPrefix(last.before[i].eventLog, records[i].eventLog)

\* C27 (getAll is ordered by recency): the list getAllRecords returns runs from
\* the most recent record to the least recent one, on the native backend and
\* on the web fallback, whatever the order of insertion.
C27_OrderedByRecency ==
    last.op = "getAllRecords"
    => \A a, b \in 1..Len(last.result) :
          a < b => ~TextLess(Value(last.result[a], "timestamp").text,
                             Value(last.result[b], "timestamp").text)

-----------------------------------------------------------------------------
(* Properties of a sync: what it uploads and what it leaves in the store.   *)

IdsOf(list) == {list[i].id : i \in 1..Len(list)}

\* The ids of the local list and of the cloud row, before the sync.
UnionIds == IdsOf(last.localRecords) \cup IdsOf(last.cloudRecords)

\* C28 (sync uploads the union), as the specification states it: after a
\* successful sync the row holds the ids of the local list and of the row
\* before, the store holds them too when the row held a record, and then the
\* device that filled the row (it holds the ids of the row it left) and this
\* device hold the same ids.
C28_DevicesConverge ==
    (last.op = "sync" /\ last.outcome.success)
    => /\ IdsOf(RemoteRecords(cloudRow, sealed)) = UnionIds
       /\ Len(last.cloudRecords) > 0 => DOMAIN dbRecords = UnionIds
       /\ Len(last.cloudRecords) > 0 => IdsOf(last.cloudRecords) = DOMAIN dbRecords

\* C28, amended: after a successful sync the row holds exactly the ids of the
\* local list and of the row before, and the store holds exactly those ids
\* when the row held a record. The device that filled the row before holds a
\* subset of them: it holds the ids of this device only after a sync of its own.
C28_UploadIsUnion ==
    (last.op = "sync" /\ last.outcome.success)
    => /\ IdsOf(RemoteRecords(cloudRow, sealed)) = UnionIds
       /\ Len(last.cloudRecords) > 0 => DOMAIN dbRecords = UnionIds
       /\ Len(last.cloudRecords) > 0 => IdsOf(last.cloudRecords) \subseteq DOMAIN dbRecords

\* A successful sync of a list holding r1 against a row holding r2: both ids
\* are in the row and in the store, and the row before held only one of them.
C28_Witness ==
    /\ last.op = "sync"
    /\ last.outcome.success
    /\ last.localRecords = <<RecA>>
    /\ IdsOf(last.cloudRecords) = {"r2"}
    /\ DOMAIN dbRecords = {"r1", "r2"}
    /\ IdsOf(RemoteRecords(cloudRow, sealed)) = {"r1", "r2"}

\* C29 (a failed sync writes nothing): when sync answers success = false, the
\* records of the store are those it held before the call.
C29_FailedSyncKeepsStore ==
    [][(last'.op = "sync" /\ ~last'.outcome.success) => dbRecords' = dbRecords]_vars

-----------------------------------------------------------------------------
(* PrivacyScreenService: enable, disable and temporaryDisable as calls that *)
(* stand at an await. pc = "disable" and "enable": inside this.disable()    *)
(* and this.enable(); "callback": inside callback(); then "settled".        *)

\* Faulty variant: the screen is enabled again only when the try block ends
\* without an error.
FinallyOnSuccess(threw) == IF threw THEN "settled" ELSE "enable"

\* try { ... } finally { await this.enable() }: both exits of the try block
\* of temporaryDisable lead into this.enable().
Finally(threw) == "enable"

PrivacyCall(kind, pc, wasEnabled) ==
    [kind |-> kind, pc |-> pc, wasEnabled |-> wasEnabled,
     threw |-> FALSE, callbackThrew |-> FALSE, enableRejected |-> FALSE]

\* new PrivacyScreenService(): enabled is false, and initialize() stands in
\* this.enable() on a native platform and has returned on the web.
InitPrivacy ==
    /\ records = <<>>
    /\ appPhase = "ready"
    /\ localStorage = NoLocalItems
    /\ dbRecords = EmptyStore
    /\ dbSettings = NoSettings
    /\ sealed = <<>>
    /\ usedRandom = {}
    /\ decryptErrorMessage = <<>>
    /\ backups = <<>>
    /\ cloudRow = NoRow
    /\ txns = <<>>
    /\ ops = <<>>
    /\ evidence = <<>>
    /\ nextRowId = 1
    /\ platform \in [isNative : BOOLEAN, subtle : {TRUE}]
    /\ activeTab = "home"
    /\ isLocked = FALSE
    /\ isDecoyMode = FALSE
    /\ pin = Null
    /\ decoyPin = Null
    /\ starts = 1
    /\ enabled = FALSE
    /\ calls = << PrivacyCall("initialize",
                              IF platform.isNative THEN "enable" ELSE "settled",
                              FALSE) >>
    /\ last = [op |-> "none"]

PrivacyStep(op) ==
    /\ last' = [op |-> op]
    /\ UNCHANGED <<lockVars, starts, appVars, storeVars, cryptoVars, backups,
                   cloudRow, idbVars, essVars>>

\* privacyScreen.enable(), up to its await
Enable ==
    /\ Len(calls) < MaxCalls
    /\ calls' = Append(calls, PrivacyCall("enable", "enable", enabled))
    /\ enabled' = enabled
    /\ PrivacyStep("enable")

\* privacyScreen.disable(), up to its await
Disable ==
    /\ Len(calls) < MaxCalls
    /\ calls' = Append(calls, PrivacyCall("disable", "disable", enabled))
    /\ enabled' = enabled
    /\ PrivacyStep("disable")

\* privacyScreen.temporaryDisable(callback), up to its first await
TemporaryDisable ==
    /\ Len(calls) < MaxCalls
    /\ calls' = Append(calls, PrivacyCall("temporaryDisable",
                                          IF ~enabled THEN "callback" ELSE "disable",
                                          enabled))
    /\ enabled' = enabled
    /\ PrivacyStep("temporaryDisable")

\* The rest of this.disable() of call i. ok: PrivacyScreen.disable() resolves.
DisableSettles(i, ok) ==
    /\ calls[i].pc = "disable"
    /\ LET done  == ~platform.isNative \/ ok
           inTry == calls[i].kind = "temporaryDisable"
       IN  /\ enabled' = IF platform.isNative /\ ok THEN FALSE ELSE enabled
           /\ calls' = [calls EXCEPT ![i].threw = ~done,
                                     ![i].pc = IF ~inTry THEN "settled"
                                               ELSE IF done THEN "callback"
                                               ELSE Finally(TRUE)]
    /\ PrivacyStep("disableSettles")

\* callback() of call i settles. throws: it rejects.
CallbackSettles(i, throws) ==
    /\ calls[i].pc = "callback"
    /\ calls' = [calls EXCEPT ![i].threw = throws,
                              ![i].callbackThrew = throws,
                              ![i].pc = IF ~calls[i].wasEnabled THEN "settled"
                                        ELSE Finally(throws)]
    /\ enabled' = enabled
    /\ PrivacyStep("callbackSettles")

\* The rest of this.enable() of call i. ok: PrivacyScreen.enable() resolves.
EnableSettles(i, ok) ==
    /\ calls[i].pc = "enable"
    /\ enabled' = IF platform.isNative /\ ok THEN TRUE ELSE enabled
    /\ calls' = [calls EXCEPT ![i].enableRejected = platform.isNative /\ ~ok,
                              ![i].pc = "settled"]
    /\ PrivacyStep("enableSettles")

\* What the promise of a settled call is: initialize catches the error of
\* enable, the others pass on the error of the plugin or of the callback.
Rejected(call) ==
    /\ call.kind # "initialize"
    /\ call.threw \/ call.enableRejected

NextPrivacy ==
    \/ Enable
    \/ Disable
    \/ TemporaryDisable
    \/ \E i \in 1..Len(calls), ok \in BOOLEAN : DisableSettles(i, ok)
    \/ \E i \in 1..Len(calls), throws \in BOOLEAN : CallbackSettles(i, throws)
    \/ \E i \in 1..Len(calls), ok \in BOOLEAN : EnableSettles(i, ok)

SpecPrivacy == InitPrivacy /\ [][NextPrivacy]_vars

AllSettled == \A i \in 1..Len(calls) : calls[i].pc = "settled"

\* Some temporaryDisable found the screen enabled, and the screen was not
\* switched off by a disable() of the caller.
DisabledOnlyTemporarily ==
    /\ AllSettled
    /\ \E i \in 1..Len(calls) :
          calls[i].kind = "temporaryDisable" /\ calls[i].wasEnabled
    /\ \A i \in 1..Len(calls) : calls[i].kind # "disable"

-----------------------------------------------------------------------------
(* The lock: sign-in, the tabs, and the handlers of SettingsScreen that     *)
(* write the PINs. dbOk = FALSE is an IndexedDB whose call rejects, so that *)
(* the handler takes its localStorage fallback; the specification lets the  *)
(* store fail in handleClearData only.                                      *)

\* What Dashboard, AddRecord, RecordsList and SettingsScreen are given as
\* their `records` prop by the render of App.
ScreenRecords(tab, recs, decoy) ==
    CASE tab = "home"     -> IF decoy THEN <<>> ELSE recs
      [] tab = "add"      -> <<>>
      [] tab = "records"  -> IF decoy THEN <<>> ELSE recs
      [] tab = "settings" -> recs

Tabs == {"home", "add", "records", "settings"}

\* The texts typed into the PIN dialogs, as characters.
PinChars ==
    [p \in {"1234", "4321", "123", "12a4"} |->
        CASE p = "1234" -> <<"1", "2", "3", "4">>
          [] p = "4321" -> <<"4", "3", "2", "1">>
          [] p = "123"  -> <<"1", "2", "3">>
          [] p = "12a4" -> <<"1", "2", "a", "4">>]
PinInputs == DOMAIN PinChars

\* newPin.length !== 4 || !/^\d+$/.test(newPin)
NotFourDigits(newPin) ==
    \/ Len(PinChars[newPin]) # 4
    \/ \E i \in 1..Len(PinChars[newPin]) :
          PinChars[newPin][i] \notin {"0", "1", "2", "3", "4", "5", "6", "7", "8", "9"}

\* localStorage.setItem(key, value) and localStorage.removeItem of `keys`
SetItem(ls, key, value) ==
    [k \in DOMAIN ls \cup {key} |-> IF k = key THEN value ELSE ls[k]]
RemoveItems(ls, keys) == [k \in DOMAIN ls \ keys |-> ls[k]]

\* SignInScreen onComplete(enteredPin, onError)
SignIn(enteredPin) ==
    /\ appPhase = "ready"
    /\ isLocked
    /\ IF enteredPin = pin
       THEN isLocked' = FALSE /\ isDecoyMode' = FALSE
       ELSE IF Truthy(decoyPin) /\ enteredPin = decoyPin
       THEN isLocked' = FALSE /\ isDecoyMode' = TRUE
       ELSE UNCHANGED <<isLocked, isDecoyMode>>
    /\ last' = [op |-> "signIn", enteredPin |-> enteredPin,
                onError |-> enteredPin # pin
                            /\ ~(Truthy(decoyPin) /\ enteredPin = decoyPin)]
    /\ UNCHANGED <<activeTab, pin, decoyPin, privacyVars, starts, appVars, storeVars,
                   cryptoVars, backups, cloudRow, idbVars, essVars>>

\* TabButton onClick: setActiveTab(tab)
SelectTab(tab) ==
    /\ appPhase = "ready"
    /\ ~isLocked
    /\ activeTab' = tab
    /\ last' = [op |-> "selectTab", tab |-> tab]
    /\ UNCHANGED <<isLocked, isDecoyMode, pin, decoyPin, privacyVars, starts, appVars,
                   storeVars, cryptoVars, backups, cloudRow, idbVars, essVars>>

\* The guard of every handler of SettingsScreen: the screen is shown.
SettingsShown == appPhase = "ready" /\ ~isLocked /\ activeTab = "settings"

\* SettingsScreen.handleSetPin, with onPinChange of App
HandleSetPin(newPin, confirmPin, dbOk) ==
    /\ SettingsShown
    /\ LET refused == \/ NotFourDigits(newPin)
                      \/ newPin # confirmPin
                      \/ Truthy(decoyPin) /\ newPin = decoyPin
       IN  /\ pin' = IF refused THEN pin ELSE newPin
           /\ dbSettings' = IF refused \/ ~dbOk THEN dbSettings
                            ELSE saveSetting(dbSettings, "recordKeeper_pin", newPin)
           /\ localStorage' = IF refused \/ dbOk THEN localStorage
                              ELSE SetItem(localStorage, "recordKeeper_pin", newPin)
           /\ last' = [op |-> "handleSetPin", newPin |-> newPin, refused |-> refused]
    /\ UNCHANGED <<activeTab, isLocked, isDecoyMode, decoyPin, privacyVars, starts,
                   records, appPhase, dbRecords, cryptoVars, backups, cloudRow,
                   idbVars, essVars>>

\* SettingsScreen.handleSetDecoyPin, with onDecoyPinChange of App
HandleSetDecoyPin(newPin, confirmPin, dbOk) ==
    /\ SettingsShown
    /\ LET refused == \/ NotFourDigits(newPin)
                      \/ newPin # confirmPin
                      \/ Truthy(pin) /\ newPin = pin
       IN  /\ decoyPin' = IF refused THEN decoyPin ELSE newPin
           /\ dbSettings' = IF refused \/ ~dbOk THEN dbSettings
                            ELSE saveSetting(dbSettings, "recordKeeper_decoyPin", newPin)
           /\ localStorage' = IF refused \/ dbOk THEN localStorage
                              ELSE SetItem(localStorage, "recordKeeper_decoyPin", newPin)
           /\ last' = [op |-> "handleSetDecoyPin", newPin |-> newPin, refused |-> refused]
    /\ UNCHANGED <<activeTab, isLocked, isDecoyMode, pin, privacyVars, starts,
                   records, appPhase, dbRecords, cryptoVars, backups, cloudRow,
                   idbVars, essVars>>

\* SettingsScreen.handleLockToggle(enabled), with onLockToggle of App
HandleLockToggle(on, dbOk) ==
    /\ SettingsShown
    /\ LET refused == on /\ ~Truthy(pin)
           text    == IF on THEN "true" ELSE "false"
       IN  /\ dbSettings' = IF refused \/ ~dbOk THEN dbSettings
                            ELSE saveSetting(dbSettings, "recordKeeper_lockEnabled", text)
           /\ localStorage' = IF refused \/ dbOk THEN localStorage
                              ELSE SetItem(localStorage, "recordKeeper_lockEnabled", text)
           /\ last' = [op |-> "handleLockToggle", enabled |-> on, refused |-> refused]
    /\ UNCHANGED <<lockVars, privacyVars, starts, records, appPhase, dbRecords,
                   cryptoVars, backups, cloudRow, idbVars, essVars>>

\* SettingsScreen.handleClearData, up to the reload. With dbOk = FALSE
\* clearRecords rejects and only the localStorage items are removed.
HandleClearData(dbOk) ==
    /\ SettingsShown
    /\ dbRecords' = IF dbOk THEN EmptyStore ELSE dbRecords
    /\ dbSettings' = IF dbOk
                     THEN saveSetting(saveSetting(dbSettings, "recordKeeper_pin", Null),
                                      "recordKeeper_lockEnabled", "false")
                     ELSE dbSettings
    /\ localStorage' = RemoveItems(localStorage,
                           {"recordKeeper_records", "recordKeeper_pin",
                            "recordKeeper_lockEnabled"})
    /\ appPhase' = "loading"
    /\ records' = <<>>
    /\ Mounted(TRUE)
    /\ last' = [op |-> "handleClearData", dbOk |-> dbOk]
    /\ UNCHANGED <<privacyVars, starts, cryptoVars, backups, cloudRow, idbVars, essVars>>

\* cloudSyncService.applySyncData(syncData): saveRecords, then the settings
\* of the snapshot that are truthy. A rejected saveRecords ends the call.
applySyncData(recordsDb, settingsDb, syncData) ==
    LET saved == saveRecords(recordsDb, syncData.records)
    IN  IF ~saved.ok
        THEN [ok |-> FALSE, dbRecords |-> saved.db, dbSettings |-> settingsDb]
        ELSE [ok |-> TRUE, dbRecords |-> saved.db,
              dbSettings |-> ApplySettings(settingsDb, syncData.settings,
                                 <<"pin", "decoyPin", "lockEnabled", "userName">>)]

ApplySyncData(syncData) ==
    /\ appPhase = "ready"
    /\ \E r \in {applySyncData(dbRecords, dbSettings, syncData)} :
          /\ dbRecords' = r.dbRecords
          /\ dbSettings' = r.dbSettings
          /\ last' = [op |-> "applySyncData", ok |-> r.ok]
    /\ UNCHANGED <<lockVars, privacyVars, starts, appVars, cryptoVars, backups,
                   cloudRow, idbVars, essVars>>

\* The snapshot another device of the user uploaded.
SyncDataInputs ==
    { [version |-> SYNC_VERSION, lastSynced |-> "2025-12-31T00:00:00.000Z",
       records |-> <<RecC>>, settings |-> RemoteSettings] }

LockedSettings == [AllSettings EXCEPT !.recordKeeper_lockEnabled = "true"]

\* The app is opened on a device that holds records; the lock is on with
\* both PINs set, or no PIN was ever set.
InitLock ==
    /\ records = <<>>
    /\ appPhase = "loading"
    /\ localStorage = NoLocalItems
    /\ dbRecords = StoreOf(<<RecC, RecA>>)
    /\ dbSettings \in {LockedSettings, ClearedSettings}
    /\ sealed = ForeignSealed
    /\ usedRandom = {}
    /\ decryptErrorMessage = <<>>
    /\ backups = <<>>
    /\ cloudRow = NoRow
    /\ txns = <<>>
    /\ ops = <<>>
    /\ evidence = <<>>
    /\ nextRowId = 1
    /\ platform = [isNative |-> FALSE, subtle |-> TRUE]
    /\ activeTab = "home"
    /\ isLocked = FALSE
    /\ isDecoyMode = FALSE
    /\ pin = Null
    /\ decoyPin = Null
    /\ starts = 0
    /\ enabled = FALSE
    /\ calls = <<>>
    /\ last = [op |-> "none"]

NextLock ==
    \/ LoadData
    \/ Restart
    \/ \E enteredPin \in {"1234", "4321", "9999"} : SignIn(enteredPin)
    \/ \E tab \in Tabs : SelectTab(tab)
    \/ \E newPin, confirmPin \in PinInputs : HandleSetPin(newPin, confirmPin, TRUE)
    \/ \E newPin, confirmPin \in PinInputs : HandleSetDecoyPin(newPin, confirmPin, TRUE)
    \/ \E on \in BOOLEAN : HandleLockToggle(on, TRUE)
    \/ \E dbOk \in BOOLEAN : starts < MaxStarts /\ HandleClearData(dbOk)
    \/ \E p \in {ForeignPassword, "hunter22"}, e \in ForeignEnvelopes :
          starts < MaxStarts /\ SettingsShown /\ HandleRestoreBackup(p, EnvelopeFile(e))
    \/ \E syncData \in SyncDataInputs : ApplySyncData(syncData)

SpecLock == InitLock /\ [][NextLock]_vars

\* C22 (decoy mode hides the records): while the app is unlocked in decoy
\* mode, the screen of the active tab is given an empty record list.
C22_DecoyHidesRecords ==
    (appPhase = "ready" /\ ~isLocked /\ isDecoyMode)
    => ScreenRecords(activeTab, records, isDecoyMode) = <<>>

\* C30 (the PINs differ): the main PIN and the decoy PIN are never equal when
\* both are set, in the App's state and in the settings store, and a sign-in
\* with the decoy PIN unlocks into decoy mode.
C30_PinsDiffer ==
    /\ (Truthy(pin) /\ Truthy(decoyPin)) => pin # decoyPin
    /\ (/\ Truthy(getSetting(dbSettings, "recordKeeper_pin"))
        /\ Truthy(getSetting(dbSettings, "recordKeeper_decoyPin")))
       => getSetting(dbSettings, "recordKeeper_pin")
          # getSetting(dbSettings, "recordKeeper_decoyPin")
    /\ (last.op = "signIn" /\ Truthy(decoyPin) /\ last.enteredPin = decoyPin)
       => ~isLocked /\ isDecoyMode

=============================================================================
